---------------------------- MODULE Spec2Model ----------------------------
(***************************************************************************)
(* Law search service: the tiered search orchestrator (law_search,         *)
(* get_law_detail, search_articles of src/main.py), the multi-query        *)
(* aggregators (_db_search_laws of src/main.py, search_law of              *)
(* src/pipeline/collectors/law_collector.py), the write-back into the     *)
(* primary store, the cache (src/core/cache.py, in_memory_cache.py,        *)
(* redis_cache.py) and the vector store (src/core/vector_store.py,         *)
(* in_memory_store.py, file_system_store.py, qdrant_store.py).             *)
(*                                                                         *)
(* Strings are sequences of one-character strings.  Scores are integers    *)
(* in units of 1/300, so that 0.8 is 240, 0.2 is 60 and 1.0 is 300.        *)
(***************************************************************************)
EXTENDS Integers, Sequences, FiniteSets, TLC

(***************************************************************************)
(* Bounds of the model.                                                    *)
(***************************************************************************)
\* largest number of comma-separated parts of a request's query string
MaxTerms == 2
\* largest top_k a request asks for (the code allows 1..100)
MaxTopK == 2

\* arguments of a cache key after its namespace
MaxArgs == 2

(***************************************************************************)
(* Strings.                                                                *)
(***************************************************************************)
SetMin(S) == CHOOSE x \in S : \A y \in S : x <= y

SetMax(S) == CHOOSE x \in S : \A y \in S : x >= y

\* code points of the characters the model uses (Python compares str by code point)
CharOrd(c) ==
    CASE c = " " -> 32
      [] c = "," -> 44
      [] c = "1" -> 49
      [] c = "2" -> 50
      [] c = "3" -> 51
      [] c = "A" -> 65
      [] c = "a" -> 97
      [] c = "b" -> 98
      [] OTHER -> 127

\* s < t in Python's str ordering
StrLess(s, t) ==
    \/ /\ Len(s) < Len(t)
       /\ SubSeq(t, 1, Len(s)) = s
    \/ \E i \in 1..Len(s) :
          /\ i <= Len(t)
          /\ SubSeq(s, 1, i - 1) = SubSeq(t, 1, i - 1)
          /\ CharOrd(s[i]) < CharOrd(t[i])

\* str.lower()
Lower(s) == [i \in 1..Len(s) |-> IF s[i] = "A" THEN "a" ELSE s[i]]

\* str.strip()
Strip(s) ==
    LET ns == {i \in 1..Len(s) : s[i] # " "}
    IN  IF ns = {} THEN <<>> ELSE SubSeq(s, SetMin(ns), SetMax(ns))

\* str.split(sep): the segments between the occurrences of sep, empty ones kept
RECURSIVE Split(_, _)
Split(s, sep) ==
    LET at == {i \in 1..Len(s) : s[i] = sep}
    IN  IF at = {} THEN <<s>>
        ELSE <<SubSeq(s, 1, SetMin(at) - 1)>>
                 \o Split(SubSeq(s, SetMin(at) + 1, Len(s)), sep)

\* [tok for tok in re.split(r"\s+", q) if tok]
RECURSIVE Tokens(_)
Tokens(s) ==
    LET ns == {i \in 1..Len(s) : s[i] # " "}
    IN  IF ns = {} THEN <<>>
        ELSE LET b  == SetMin(ns)
                 sp == {i \in b..Len(s) : s[i] = " "}
                 e  == IF sp = {} THEN Len(s) + 1 ELSE SetMin(sp)
             IN  <<SubSeq(s, b, e - 1)>> \o Tokens(SubSeq(s, e, Len(s)))

\* q in t
Contains(t, q) ==
    \E i \in 0..(Len(t) - Len(q)) : SubSeq(t, i + 1, i + Len(q)) = q

\* " ".join(parts)
RECURSIVE JoinWith(_, _)
JoinWith(parts, sep) ==
    IF Len(parts) = 0 THEN <<>>
    ELSE IF Len(parts) = 1 THEN parts[1]
    ELSE parts[1] \o <<sep>> \o JoinWith(Tail(parts), sep)

\* s[:n]
Take(s, n) == SubSeq(s, 1, IF n < Len(s) THEN n ELSE Len(s))

Range(s) == {s[i] : i \in DOMAIN s}

(***************************************************************************)
(* Scoring.                                                                *)
(***************************************************************************)
\* 0.8, the contribution of the whole query being contained in the text
LexBase == 240
\* 0.2, scaled by the fraction of the query's tokens found in the text
LexBonus == 60
\* 1.0, the upper clamp of the lexical score
LexMax == 300

Hits(t, toks) == Cardinality({i \in 1..Len(toks) : Contains(t, toks[i])})

_lexical_score(text, query) ==
    LET q == Lower(Strip(query))
    IN  IF q = <<>> THEN 0
        ELSE LET t      == Lower(text)
                 base   == IF Contains(t, q) THEN LexBase ELSE 0
                 tokens == Tokens(q)
                 bonus  == IF Len(tokens) > 0
                           THEN (LexBonus * Hits(t, tokens)) \div Len(tokens)
                           ELSE 0
                 score  == base + bonus
             IN  IF score > LexMax THEN LexMax ELSE IF score < 0 THEN 0 ELSE score

(***************************************************************************)
(* The laws that exist: the remote source (law.go.kr) holds all of them,   *)
(* the primary store (PostgreSQL) holds those written into it.             *)
(***************************************************************************)
LawIds == {"1", "2", "3"}

\* a law id no tier knows
UnknownLawId == "9"

law_name_kr(id) ==
    CASE id = "1" -> <<"A">>
      [] id = "2" -> <<"a", " ", "b">>
      [] id = "3" -> <<"b">>
      [] OTHER -> <<>>

\* the remote source's articles of a law: article_no and content
RemoteArticles(id) ==
    CASE id = "1" -> << [article_no |-> <<"1">>, content |-> <<"a">>],
                        [article_no |-> <<"2">>, content |-> <<"A", " ", "b">>] >>
      [] OTHER -> <<>>

\* the ids of a set as a sequence, in ascending order
RECURSIVE SeqOfIds(_)
SeqOfIds(S) ==
    IF S = {} THEN <<>>
    ELSE LET m == CHOOSE x \in S : \A y \in S : CharOrd(x) <= CharOrd(y)
         IN  <<m>> \o SeqOfIds(S \ {m})

(***************************************************************************)
(* The requests' query strings: up to MaxTerms parts joined by commas.     *)
(***************************************************************************)
QueryParts ==
    { <<>>, <<" ">>, <<"a">>, <<" ", "b">>, <<"a", " ", "b">>, <<"1">> }

SeqsUpTo(S, n) == UNION {[1..k -> S] : k \in 1..n}

\* body.query has min_length 1
Queries == {JoinWith(ps, ",") : ps \in SeqsUpTo(QueryParts, MaxTerms)} \ {<<>>}

TopKs == 1..MaxTopK

\* the query strings of the article search, where a comma is a character like another
ArticleQueries == (QueryParts \ {<<>>}) \cup {<<"a", ",", "a">>}

(***************************************************************************)
(* Multi-query aggregation over the primary store.                         *)
(***************************************************************************)
_split_query_list(query) ==
    LET parts == Split(query, ",")
        RECURSIVE keep(_)
        keep(ps) == IF ps = <<>> THEN <<>>
                    ELSE (IF Strip(Head(ps)) # <<>> THEN <<Strip(Head(ps))>> ELSE <<>>)
                             \o keep(Tail(ps))
    IN  keep(parts)

Max2(a, b) == IF a >= b THEN a ELSE b

Min2(a, b) == IF a <= b THEN a ELSE b

\* faulty variant: the budget is not divided among the sub-queries
PerQuery_Undivided(top_k, n) == top_k

\* per_query = max(1, top_k // len(query_list))
PerQuery(top_k, n) == Max2(1, top_k \div n)

\* candidate_limit = min(max(per_query * 30, top_k * 5), 300)
CandidateLimit(per_query, top_k) == Min2(Max2(per_query * 30, top_k * 5), 300)

\* " ".join of the non-empty name and law_id (abbreviation and department are unset)
Searchable(id) == Strip(JoinWith(<<law_name_kr(id), <<id>>>>, " "))

\* the WHERE clause: law_id == q, or law_name_kr ILIKE %tok% for a token of q
LikeMatches(id, q) ==
    LET tokens   == Tokens(q)
        patterns == IF tokens # <<>> THEN tokens ELSE <<q>>
    IN  \/ <<id>> = q
        \/ \E i \in 1..Len(patterns) :
              Contains(Lower(law_name_kr(id)), Lower(patterns[i]))

_law_row_to_search_result(id, query) ==
    [law_id |-> id, law_name_kr |-> law_name_kr(id),
     score |-> _lexical_score(Searchable(id), query)]

\* faulty variant: the sort key is the score alone
KeyLess_ScoreOnly(a, b) == a.score > b.score

\* the sort key (-(r.score or 0.0), r.law_name_kr)
KeyLess(a, b) ==
    \/ a.score > b.score
    \/ a.score = b.score /\ StrLess(a.law_name_kr, b.law_name_kr)

\* list.sort(key=...), which is stable
RECURSIVE SortResults(_)
SortResults(s) ==
    IF Len(s) <= 1 THEN s
    ELSE LET front == SortResults(SubSeq(s, 1, Len(s) - 1))
             r     == s[Len(s)]
             k     == Cardinality({i \in 1..Len(front) : ~KeyLess(r, front[i])})
         IN  SubSeq(front, 1, k) \o <<r>> \o SubSeq(front, k + 1, Len(front))

\* the rows of one sub-query: selected, scored, score > 0 kept, sorted, cut to per_query
DbSubSearch(laws, q, per_query, top_k) ==
    LET ids  == Take(SeqOfIds({id \in laws : LikeMatches(id, q)}),
                     CandidateLimit(per_query, top_k))
        RECURSIVE scored(_)
        scored(rows) ==
            IF rows = <<>> THEN <<>>
            ELSE LET r == _law_row_to_search_result(Head(rows), q)
                 IN  (IF r.score <= 0 THEN <<>> ELSE <<r>>) \o scored(Tail(rows))
    IN  Take(SortResults(scored(ids)), per_query)

\* faulty variant: the later row of an id replaces the earlier one
MergeOne_KeepsLast(by_id, r) ==
    IF \E i \in 1..Len(by_id) : by_id[i].law_id = r.law_id
    THEN LET i == CHOOSE i \in 1..Len(by_id) : by_id[i].law_id = r.law_id
         IN  [by_id EXCEPT ![i] = r]
    ELSE Append(by_id, r)

\* by_id[r.law_id] = r when the id is new or r scores higher
MergeOne(by_id, r) ==
    IF \E i \in 1..Len(by_id) : by_id[i].law_id = r.law_id
    THEN LET i == CHOOSE i \in 1..Len(by_id) : by_id[i].law_id = r.law_id
         IN  IF r.score > by_id[i].score THEN [by_id EXCEPT ![i] = r] ELSE by_id
    ELSE Append(by_id, r)

RECURSIVE MergeRows(_, _)
MergeRows(by_id, rows) ==
    IF rows = <<>> THEN by_id
    ELSE MergeRows(MergeOne(by_id, Head(rows)), Tail(rows))

\* the loop over query_list from sub-query i on; the db.execute of sub-query
\* fail_at raises (0: none does), which ends the loop and the function
RECURSIVE DbSearchLoop(_, _, _, _, _, _, _)
DbSearchLoop(laws, query_list, top_k, fail_at, i, by_id, searched) ==
    IF i > Len(query_list)
    THEN [raised |-> FALSE, searched |-> searched,
          results |-> Take(SortResults(by_id), top_k)]
    ELSE IF i = fail_at
    THEN [raised |-> TRUE, searched |-> searched, results |-> <<>>]
    ELSE DbSearchLoop(laws, query_list, top_k, fail_at, i + 1,
             MergeRows(by_id, DbSubSearch(laws, query_list[i],
                                          PerQuery(top_k, Len(query_list)), top_k)),
             searched \cup {i})

_db_search_laws(laws, query, top_k, fail_at) ==
    LET query_list == _split_query_list(query)
    IN  IF query_list = <<>>
        THEN [raised |-> FALSE, searched |-> {}, results |-> <<>>]
        ELSE DbSearchLoop(laws, query_list, top_k, fail_at, 1, <<>>, {})

(***************************************************************************)
(* Multi-query aggregation over the remote source.                         *)
(***************************************************************************)
to_query_list(query) == _split_query_list(query)

\* what the remote search answers for one term: the laws whose name contains
\* it, at most display of them
RemoteSearch(q, display) ==
    Take(SeqOfIds({id \in LawIds : Contains(Lower(law_name_kr(id)), Lower(q))}),
         display)

\* fetch_law_for_query: the refined rows, or [] when the call fails in any way
fetch_law_for_query(q, query_display, fails) ==
    IF fails THEN <<>> ELSE RemoteSearch(q, query_display)

\* search_law: failed is the set of sub-query indices whose remote call fails
search_law(query, top_k, failed) ==
    LET query_list == to_query_list(query)
        per_query  == PerQuery(top_k, Len(query_list))
        RECURSIVE aggregate(_)
        aggregate(i) ==
            IF i > Len(query_list) THEN <<>>
            ELSE LET result == fetch_law_for_query(query_list[i], per_query,
                                                   i \in failed)
                 IN  [k \in 1..Len(result) |->
                         [keyword |-> query_list[i], law_id |-> result[k]]]
                     \o aggregate(i + 1)
    IN  IF query_list = <<>> THEN <<>> ELSE Take(aggregate(1), top_k)

\* faulty variant: the law id is read under a key the rows do not have
_map_collector_result_WrongKey(item) ==
    [law_id |-> "", law_name_kr |-> law_name_kr(item.law_id), score |-> -1]

\* _map_collector_result: score and snippet are None (-1 stands for None)
_map_collector_result(item) ==
    [law_id |-> item.law_id, law_name_kr |-> law_name_kr(item.law_id), score |-> -1]

(***************************************************************************)
(* State.                                                                  *)
(***************************************************************************)
VARIABLES
    law_api_key,    \* settings.law_api_key is set: the secondary source is configured
    db_laws,        \* primary store, committed: the law_id of the Law rows
    db_articles,    \* primary store, committed: law_id -> its LawArticle rows
    sess_laws,      \* the request's session: the Law rows it sees
    sess_articles,  \* the request's session: the LawArticle rows it sees
    pc,             \* where the request handler stands
    flow,           \* the handler: "law_search", "get_law_detail", "search_articles"
    req,            \* the request's inputs
    results,        \* the handler's results
    total_count,    \* the handler's total_count
    detail,         \* the handler's detail: NoDetail (None), EmptyDetail ({}) or a record
    source,         \* the handler's source: "none" (None), "postgres", "law.go.kr"
    db_error,       \* the handler's db_error is not None
    need_remote_fallback,
    law_name_known, \* search_articles: law_name_kr is not None
    raw,            \* law_search: the rows the collector returned
    outcome,        \* how the request ended
    hist,           \* what happened during the request (history, read by the properties)
    tasks,          \* an aggregator call followed step by step: its sub-query searches
    mk,             \* the last call of Cache._make_key: its arguments and its value
    cache_type,     \* config.cache_type: "in_memory" or "redis"
    cache_initialized, \* InMemoryCache._initialized; RedisCache.client is not None
    cache_store,    \* InMemoryCache._store, or the keys of the Redis server: key -> entry
    clock,          \* time.time()
    cache_ret,      \* the last cache call: its arguments, its value or error
    store_type,     \* config.store_type: "in_memory", "file_system" or "qdrant"
    store_initialized, \* the store's _initialized; QdrantVectorStore.client is not None
    store_colls,    \* the store's collections: name -> its documents
    store_ret,      \* the last store call: its arguments, its value or error
    calc,           \* the last call of a scoring or snippet function: arguments and value
    job,            \* a collection job writing to the primary store: its position, its session
    law_rows,       \* the laws table followed field by field, and the last write-back to it
    overlap         \* two requests writing one law back at the same time: their sessions

\* the state of the request handlers
handler == <<law_api_key, db_laws, db_articles, sess_laws, sess_articles, pc, flow, req,
             results, total_count, detail, source, db_error, need_remote_fallback,
             law_name_known, raw, outcome, hist>>

\* the state of the aggregator call followed step by step
aggregator == <<tasks>>

\* the state of the key construction
keymaker == <<mk>>

\* the state of the cache
cachevars == <<cache_type, cache_initialized, cache_store, clock, cache_ret>>

\* the state of the vector store
storevars == <<store_type, store_initialized, store_colls, store_ret>>

\* the state of the scoring and snippet functions followed on their own
calculator == <<calc>>

\* the state of the collection jobs
collector == <<job>>

\* the laws table followed field by field
rowvars == <<law_rows>>

\* the sessions of two overlapping requests
racevars == <<overlap>>

\* the state the request handlers leave alone
apart == <<aggregator, keymaker, cachevars, storevars, calculator, collector, rowvars, racevars>>

\* the state an aggregator call leaves alone
not_aggregator == <<handler, keymaker, cachevars, storevars, calculator, collector, rowvars, racevars>>

\* the state a key construction leaves alone
not_keymaker == <<handler, aggregator, cachevars, storevars, calculator, collector, rowvars, racevars>>

\* the state a cache call leaves alone
not_cache == <<handler, aggregator, keymaker, storevars, calculator, collector, rowvars, racevars>>

\* the state a store call leaves alone
not_store == <<handler, aggregator, keymaker, cachevars, calculator, collector, rowvars, racevars>>

\* the state a scoring or snippet call leaves alone
not_calculator == <<handler, aggregator, keymaker, cachevars, storevars, collector, rowvars, racevars>>

\* the state a collection job leaves alone: all but the committed primary store
not_collector == <<law_api_key, sess_laws, sess_articles, pc, flow, req, results, total_count,
                   detail, source, db_error, need_remote_fallback, law_name_known, raw,
                   outcome, hist, aggregator, keymaker, cachevars, storevars, calculator,
                   rowvars, racevars>>

\* the state a write-back to the laws table followed field by field leaves alone
not_rows == <<handler, aggregator, keymaker, cachevars, storevars, calculator, collector,
              racevars>>

\* the state two overlapping requests leave alone: all but the committed primary store
not_race == <<law_api_key, sess_laws, sess_articles, pc, flow, req, results, total_count,
              detail, source, db_error, need_remote_fallback, law_name_known, raw,
              outcome, hist, aggregator, keymaker, cachevars, storevars, calculator,
              collector, rowvars>>

vars == <<handler, apart>>

\* no aggregator call is being followed
NoTasks ==
    [agg |-> "none",        \* "db": _db_search_laws, "remote": search_law
     phase |-> "idle",      \* "running", "returned", "raised"
     query |-> <<>>,
     query_list |-> <<>>,
     top_k |-> 0,
     status |-> <<>>,       \* per sub-query: "new", "running", "done", "failed"
     result |-> <<>>,       \* per sub-query: the rows its search returned
     order |-> <<>>,        \* the sub-queries in the order their searches completed
     merging |-> FALSE,     \* a row of a sub-query has been taken into the merge
     by_id |-> <<>>,        \* _db_search_laws: by_id so far
     out |-> <<>>]          \* the value returned

\* None: no detail
NoDetail ==
    [kind |-> "None", law_id |-> "", has_articles |-> FALSE, articles |-> <<>>,
     article_count |-> 0]

\* {}: the empty detail of a failed fetch
EmptyDetail == [NoDetail EXCEPT !.kind = "{}"]

NoSnap == [results |-> <<>>, total_count |-> 0, detail |-> NoDetail]

NoRequest ==
    [law_id |-> "", query |-> <<>>, top_k |-> 0,
     include_articles |-> FALSE, include_full_text |-> FALSE]

NoHist ==
    [primary |-> "none",       \* the primary query: "rows", "empty" or "error"
     prim_results |-> <<>>,    \* what the primary query returned
     n_sub |-> 0,              \* number of sub-queries of the query
     fail_at |-> 0,            \* the sub-query whose primary search raised (0: none)
     searched |-> {},          \* the sub-queries whose primary search was executed
     law_in_db |-> FALSE,      \* the law was in the primary store when the request came
     article_total |-> 0,      \* the articles it had there
     sec |-> "none",           \* the secondary call: "rows", "empty", "bad_rows", "raised"
     sec_calls |-> 0,          \* calls of the secondary source
     remote_failed |-> {},     \* the sub-queries whose remote call failed
     sec_down |-> FALSE,       \* every remote call of the request failed
     wb_calls |-> 0,           \* calls of the write-back function
     writes |-> 0,             \* statements the write-back executed on the primary store
     commits |-> 0,            \* commits of the session
     wb_fail |-> "none",       \* the write-back step that failed
     rb_fail |-> FALSE,        \* the rollback after it failed too
     snap |-> NoSnap]             \* the response as computed before the write-back

\* the LawArticle rows the primary store may hold for the Law rows laws: those of
\* a law are the ones a write-back of its detail stored, or none
StoredArticles(laws) ==
    {arts \in [LawIds -> {RemoteArticles(id) : id \in LawIds} \cup {<<>>}] :
        \A id \in LawIds :
           arts[id] # <<>> => (id \in laws /\ arts[id] = RemoteArticles(id))}

\* the shape of an entry: (value, expiry_time)
NoEntry == [value |-> "", expiry |-> 0]

\* no cache call yet
NoRet ==
    [op |-> "none",
     key |-> <<>>,          \* the key, or the prefix of clear_prefix
     value |-> "",          \* set: the value written; get: the value returned
     ttl |-> -1,            \* set: the ttl argument (-1: None)
     at |-> 0,              \* the time of the call
     found |-> FALSE,       \* get: the value is not None; exists: the value returned
     expired |-> FALSE,     \* the key's entry was stored and past its expiry at the call
     removed |-> {},        \* the keys the call deleted from the store
     uninit |-> FALSE,      \* the handle was not initialized at the call
     error |-> FALSE]       \* RuntimeError("Cache not initialized") was raised

\* no key has been made
NoKey == [config_prefix |-> <<>>, prefix |-> <<>>, args |-> <<>>, key |-> <<>>]

\* the process starts on the primary store as earlier runs left it
HandlerInit ==
    /\ law_api_key \in BOOLEAN
    /\ db_laws \in SUBSET LawIds
    /\ db_articles \in StoredArticles(db_laws)
    /\ sess_laws = db_laws
    /\ sess_articles = db_articles
    /\ pc = "idle"
    /\ flow = "none"
    /\ req = NoRequest
    /\ results = <<>>
    /\ total_count = 0
    /\ detail = NoDetail
    /\ source = "none"
    /\ db_error = FALSE
    /\ need_remote_fallback = FALSE
    /\ law_name_known = FALSE
    /\ raw = <<>>
    /\ outcome = "none"
    /\ hist = NoHist

\* no search asked: the arguments of search, hybrid_search and count_documents
NoAsk ==
    [query |-> <<>>, query_embedding |-> <<>>, top_k |-> 0, filters |-> "",
     vector_weight |-> 0, lexical_weight |-> 0]

\* no store call yet
NoStoreRet ==
    [op |-> "none",
     collection |-> "",     \* the collection the call resolved
     asked |-> NoAsk,       \* search, hybrid_search, count_documents: the arguments
     ids |-> <<>>,          \* add_documents: the documents' ids; delete_documents: ids
     added |-> <<>>,        \* add_documents: the ids returned
     results |-> <<>>,      \* search, hybrid_search: the SearchResult list returned
     count |-> 0,           \* delete_documents, count_documents: the value returned
     exists |-> FALSE,      \* collection_exists: the value returned
     uninit |-> FALSE,      \* the handle was not initialized at the call
     changed |-> FALSE,     \* the call changed the store's collections
     error |-> "none"]      \* "not_initialized": RuntimeError; "remote": the server's;
                            \* "value": ValueError

\* no scoring or snippet call yet
NoCalc ==
    [fn |-> "none",
     text |-> <<>>,         \* the text, or the document's content
     metadata |-> "",       \* _lexical_search: the document's metadata
     query |-> <<>>,
     window |-> 0,          \* _make_snippet: window
     score |-> 0,           \* the score returned, in units of 1/300
     snippet |-> <<>>]      \* _make_snippet: the value returned

\* no law has articles
NoArticles == [id \in LawIds |-> <<>>]

\* a request that has not begun
NoSession ==
    [pc |-> "idle",           \* "writing", "failed", "done"
     d |-> NoDetail,          \* the detail it fetched from the secondary source
     n |-> 0,                 \* the statements of its write-back executed so far
     since |-> <<>>,          \* the rows others committed after its DELETE
     overlapped |-> FALSE,    \* the other request was in flight when it began
     source |-> "none",       \* the source of its response
     ended |-> "none"]        \* how its transaction ended: "committed", "rolled_back"

\* no request has begun
NoOverlap == [s |-> [r \in 1..2 |-> NoSession], before |-> NoArticles]

\* a column holding NULL
Null == "null"

\* no Law row is stored under this id
NoRow == [stored |-> FALSE, law_serial |-> Null, law_type |-> Null, department |-> Null]

\* an empty laws table, no write-back applied
NoRows == [table |-> [id \in LawIds |-> NoRow], op |-> "none", raw |-> <<>>]

\* no collection job is running
NoJob ==
    [kind |-> "none",          \* "scheduler", "script", "request"
     pc |-> "idle",            \* "search", "fetch", "commit"
     queries_left |-> 0,       \* scheduler: the top_queries not yet run
     laws |-> <<>>,            \* the laws still to be fetched and written
     no_articles |-> FALSE,    \* script: args.no_articles
     sess_laws |-> {},         \* the job's session: the Law rows it sees
     sess_articles |-> NoArticles,  \* the job's session: the LawArticle rows it sees
     aborted |-> FALSE,        \* a statement of the open transaction has failed
     upserts |-> {},           \* the laws whose Law row the open transaction upserted
     written |-> {},           \* the laws whose articles the open transaction replaced
     undone |-> {},            \* the laws whose articles it deleted and did not insert
     last |-> "none",          \* how the last transaction ended: "committed", "discarded"
     upserted |-> {},          \* "committed": the laws whose Law row it upserted
     applied |-> {},           \* "committed": the laws whose articles it replaced
     emptied |-> {},           \* the laws whose articles a commit so far left deleted
     lost |-> {},              \* "discarded": the laws whose articles it had deleted
     before |-> NoArticles]    \* the committed LawArticle rows before it ended

\* the store handle as constructed: in-process, no collection, not initialized; no
\* scoring or snippet function is followed and no collection job runs
StoreAtRest ==
    /\ store_type = "in_memory"
    /\ store_initialized = FALSE
    /\ store_colls = [c \in {} |-> <<>>]
    /\ store_ret = NoStoreRet
    /\ calc = NoCalc
    /\ job = NoJob
    /\ law_rows = NoRows
    /\ overlap = NoOverlap

\* the handlers with an empty primary store and no secondary source
HandlerAtRest == HandlerInit /\ ~law_api_key /\ db_laws = {}

\* the cache handle as constructed: an empty in-process map, not initialized
CacheAtRest ==
    /\ cache_type = "in_memory"
    /\ cache_initialized = FALSE
    /\ cache_store = [k \in {} |-> NoEntry]     \* {}: no key
    /\ clock = 0
    /\ cache_ret = NoRet

Init ==
    /\ HandlerInit
    /\ tasks = NoTasks
    /\ mk = NoKey
    /\ CacheAtRest
    /\ StoreAtRest

\* a handler starts when no request is being handled
Idle == pc = "idle"

\* the handler's locals as a new request finds them
NewRequest(f, r) ==
    /\ flow' = f
    /\ req' = r
    /\ raw' = <<>>
    /\ outcome' = "none"
    /\ UNCHANGED <<apart, law_api_key, db_laws, db_articles, sess_laws, sess_articles>>

\* the request ends: the session of get_db_session is closed, which discards
\* what it did not commit
EndRequest(o) ==
    /\ pc' = "done"
    /\ outcome' = o
    /\ sess_laws' = db_laws
    /\ sess_articles' = db_articles

(***************************************************************************)
(* Whole-document search: law_search.                                      *)
(***************************************************************************)
\* faulty variant: the fallback is taken whatever the primary query returned
LawSearchFallsBack_IgnoresResults(res, key) == key

\* "if not results and settings.law_api_key"
LawSearchFallsBack(res, key) == res = <<>> /\ key

\* faulty variant: no result and no secondary is an error, whether the primary raised or not
LawSearchUnavailable_IgnoresError(res, key, err) == res = <<>> /\ ~key

\* "if not results and not settings.law_api_key and db_error is not None"
LawSearchUnavailable(res, key, err) == res = <<>> /\ ~key /\ err

\* 1) DB-first
LawSearchPrimary(query, top_k, fail_at) ==
    /\ Idle
    /\ LET r == _db_search_laws(db_laws, query, top_k, fail_at)
       IN  /\ results' = r.results
           /\ source' = IF r.results # <<>> THEN "postgres" ELSE "none"
           /\ db_error' = r.raised
           /\ hist' = [NoHist EXCEPT
                          !.primary = IF r.raised THEN "error"
                                      ELSE IF r.results # <<>> THEN "rows" ELSE "empty",
                          !.prim_results = r.results,
                          !.n_sub = Len(_split_query_list(query)),
                          !.fail_at = fail_at,
                          !.searched = r.searched]
    /\ NewRequest("law_search",
                  [NoRequest EXCEPT !.query = query, !.top_k = top_k])
    /\ total_count' = 0
    /\ detail' = NoDetail
    /\ need_remote_fallback' = FALSE
    /\ law_name_known' = FALSE
    /\ pc' = "ls_fallback"

\* 2) the law.go.kr fallback: the collector's rows, mapped.  failed: the
\* sub-queries whose remote call fails; bad_row: the remote answered a row that
\* LawSearchResult refuses (a field that is no string), which raises into the
\* handler's "except Exception" and ends the request with status 500
LawSearchSecondary(failed, bad_row) ==
    /\ pc = "ls_fallback"
    /\ flow = "law_search"
    /\ LawSearchFallsBack(results, law_api_key)
    /\ LET n    == Len(to_query_list(req.query))
           rows == search_law(req.query, req.top_k, failed)
           res  == IF rows = <<>> THEN <<>>
                   ELSE [i \in 1..Len(rows) |-> _map_collector_result(rows[i])]
           h    == [hist EXCEPT !.sec_calls = @ + 1,
                                !.remote_failed = failed,
                                !.sec_down = (n > 0 /\ failed = 1..n)]
       IN  /\ failed \subseteq 1..n
           /\ bad_row => rows # <<>>
           /\ raw' = rows
           /\ IF bad_row
              THEN /\ hist' = [h EXCEPT !.sec = "bad_rows"]
                   /\ EndRequest("InternalServerError")
                   /\ UNCHANGED <<results, source>>
              ELSE /\ results' = res
                   /\ source' = "law.go.kr"
                   /\ hist' = [h EXCEPT !.sec = IF rows # <<>> THEN "rows" ELSE "empty",
                                        !.snap = [NoSnap EXCEPT !.results = res]]
                   /\ pc' = "ls_writeback"
                   /\ UNCHANGED <<outcome, sess_laws, sess_articles>>
    /\ UNCHANGED <<apart, law_api_key, db_laws, db_articles, flow, req, total_count, detail,
                   db_error, need_remote_fallback, law_name_known>>

\* the ids _cache_search_results_to_db upserts: the rows with a law id
UpsertIds(rows) ==
    LET RECURSIVE ids(_)
        ids(rs) == IF rs = <<>> THEN <<>>
                   ELSE (IF rs[1].law_id # "" THEN <<rs[1].law_id>> ELSE <<>>)
                            \o ids(Tail(rs))
    IN  ids(rows)

\* _cache_search_results_to_db(db, raw): one upsert per row; the upsert number
\* fail_at raises (0: none does)
LawSearchWriteBack(fail_at) ==
    /\ pc = "ls_writeback"
    /\ LET ids  == UpsertIds(raw)
           done == IF fail_at = 0 THEN ids ELSE SubSeq(ids, 1, fail_at - 1)
       IN  /\ fail_at \in 0..Len(ids)
           /\ sess_laws' = sess_laws \cup Range(done)
           /\ hist' = [hist EXCEPT !.wb_calls = @ + 1,
                                   !.writes = @ + (IF fail_at = 0 THEN Len(ids) ELSE fail_at),
                                   !.wb_fail = IF fail_at = 0 THEN "none" ELSE "upsert"]
           /\ pc' = IF fail_at = 0 THEN "commit" ELSE "rollback"
    /\ UNCHANGED <<apart, law_api_key, db_laws, db_articles, sess_articles, flow, req, results,
                   total_count, detail, source, db_error, need_remote_fallback,
                   law_name_known, raw, outcome>>

\* 3) the ServiceUnavailable check, and the response
LawSearchFinish ==
    /\ flow = "law_search"
    /\ \/ pc = "finish"
       \/ pc = "ls_fallback" /\ ~LawSearchFallsBack(results, law_api_key)
    /\ IF LawSearchUnavailable(results, law_api_key, db_error)
       THEN /\ EndRequest("ServiceUnavailable")
            /\ UNCHANGED total_count
       ELSE /\ EndRequest("RESPOND")
            /\ total_count' = Len(results)
    /\ UNCHANGED <<apart, law_api_key, db_laws, db_articles, flow, req, results, detail, source,
                   db_error, need_remote_fallback, law_name_known, raw, hist>>

(***************************************************************************)
(* Detail of one law: _get_law_detail_from_db, fetch_law_detail,           *)
(* _cache_law_detail_to_db.                                                *)
(***************************************************************************)
\* the ids a request may name
RequestLawIds == LawIds \cup {UnknownLawId}

\* "if detail": a dict that is not empty.  has_articles: its articles are a list
IsDetail(d) == d.kind = "detail"

_get_law_detail_from_db(laws, arts, law_id, include_articles, include_full_text) ==
    IF law_id \notin laws THEN NoDetail
    ELSE LET article_rows == IF include_articles \/ include_full_text
                             THEN arts[law_id] ELSE <<>>
         IN  [kind |-> "detail", law_id |-> law_id,
              has_articles |-> include_articles,
              articles |-> IF include_articles THEN article_rows ELSE <<>>,
              article_count |-> Len(article_rows)]

\* fetch_law_detail: {} when the call fails in any way (ok is false) or the remote
\* source answers an error page, as it does for a law it does not hold
fetch_law_detail(law_id, include_articles, include_full_text, ok) ==
    IF ~ok \/ law_id \notin LawIds THEN EmptyDetail
    ELSE LET articles == IF include_articles THEN RemoteArticles(law_id) ELSE <<>>
         IN  [kind |-> "detail", law_id |-> law_id,
              has_articles |-> include_articles,
              articles |-> articles,
              article_count |-> IF include_articles THEN Len(articles) ELSE 0]

\* faulty variant: the law's articles are deleted whether or not the detail has a list
DetailStatements_AlwaysDeletes(d) ==
    <<"upsert", "delete">>
        \o (IF d.has_articles /\ d.articles # <<>> THEN <<"insert">> ELSE <<>>)

\* the statements _cache_law_detail_to_db executes, in order
DetailStatements(d) ==
    <<"upsert">>
        \o (IF d.has_articles THEN <<"delete">> ELSE <<>>)
        \o (IF d.has_articles /\ d.articles # <<>> THEN <<"insert">> ELSE <<>>)

\* the session's Law rows after the first n of them
LawsAfter(laws, d, n) == IF n >= 1 THEN laws \cup {d.law_id} ELSE laws

\* faulty variant: the new rows are added to the law's rows
ArticlesAfter_Appends(arts, d, n) ==
    IF n >= 3 THEN [arts EXCEPT ![d.law_id] = @ \o d.articles] ELSE arts

\* the session's LawArticle rows after the first n of them
ArticlesAfter(arts, d, n) ==
    IF n >= 3 THEN [arts EXCEPT ![d.law_id] = d.articles]
    ELSE IF n = 2 THEN [arts EXCEPT ![d.law_id] = <<>>]
    ELSE arts

\* _cache_law_detail_to_db(db, detail): the statement number fail_at raises (0: none)
DetailWriteBack(fail_at) ==
    /\ pc = "dt_writeback"
    /\ LET stmts == DetailStatements(detail)
           n     == IF fail_at = 0 THEN Len(stmts) ELSE fail_at - 1
       IN  /\ fail_at \in 0..Len(stmts)
           /\ sess_laws' = LawsAfter(sess_laws, detail, n)
           /\ sess_articles' = ArticlesAfter(sess_articles, detail, n)
           /\ hist' = [hist EXCEPT !.wb_calls = @ + 1,
                                   !.writes = @ + (IF fail_at = 0 THEN Len(stmts) ELSE fail_at),
                                   !.wb_fail = IF fail_at = 0 THEN "none" ELSE stmts[fail_at]]
           /\ pc' = IF fail_at = 0 THEN "commit" ELSE "rollback"
    /\ UNCHANGED <<apart, law_api_key, db_laws, db_articles, flow, req, results, total_count,
                   detail, source, db_error, need_remote_fallback, law_name_known, raw,
                   outcome>>

(***************************************************************************)
(* Single-document detail retrieval: get_law_detail.                       *)
(***************************************************************************)
\* faulty variant: a law stored without articles is fetched from the source too
DetailFallsBack_WhenNoArticles(d, key) == key /\ (d = NoDetail \/ d.articles = <<>>)

\* "if detail is None and settings.law_api_key"
DetailFallsBack(d, key) == d = NoDetail /\ key

\* "if db_error is not None and not settings.law_api_key", under "if not detail"
DetailUnavailable(key, err) == err /\ ~key

\* 1) DB-first; raises: a statement of _get_law_detail_from_db raises
DetailPrimary(law_id, include_articles, include_full_text, raises) ==
    /\ Idle
    /\ LET d == IF raises THEN NoDetail
                ELSE _get_law_detail_from_db(db_laws, db_articles, law_id,
                                             include_articles, include_full_text)
       IN  /\ detail' = d
           /\ source' = IF IsDetail(d) THEN "postgres" ELSE "none"
           /\ db_error' = raises
           /\ hist' = [NoHist EXCEPT
                          !.primary = IF raises THEN "error"
                                      ELSE IF IsDetail(d) THEN "rows" ELSE "empty",
                          !.law_in_db = law_id \in db_laws,
                          !.article_total = IF law_id \in db_laws
                                            THEN Len(db_articles[law_id]) ELSE 0]
    /\ NewRequest("get_law_detail",
                  [NoRequest EXCEPT !.law_id = law_id,
                                    !.include_articles = include_articles,
                                    !.include_full_text = include_full_text])
    /\ results' = <<>>
    /\ total_count' = 0
    /\ need_remote_fallback' = FALSE
    /\ law_name_known' = FALSE
    /\ pc' = "gd_fallback"

\* 2) the law.go.kr fallback; ok: the remote call succeeds
DetailSecondary(ok) ==
    /\ pc = "gd_fallback"
    /\ flow = "get_law_detail"
    /\ DetailFallsBack(detail, law_api_key)
    /\ LET d == fetch_law_detail(req.law_id, req.include_articles,
                                 req.include_full_text, ok)
       IN  /\ detail' = d
           /\ source' = IF IsDetail(d) THEN "law.go.kr" ELSE source
           /\ hist' = [hist EXCEPT !.sec_calls = @ + 1,
                                   !.sec_down = ~ok,
                                   !.sec = IF IsDetail(d) THEN "rows" ELSE "empty",
                                   !.snap = [NoSnap EXCEPT !.detail = d]]
           /\ pc' = IF IsDetail(d) THEN "dt_writeback" ELSE "finish"
    /\ UNCHANGED <<apart, law_api_key, db_laws, db_articles, sess_laws, sess_articles, flow, req,
                   results, total_count, db_error, need_remote_fallback, law_name_known,
                   raw, outcome>>

\* the 503 / 404 checks, and the response
DetailFinish ==
    /\ flow = "get_law_detail"
    /\ \/ pc = "finish"
       \/ pc = "gd_fallback" /\ ~DetailFallsBack(detail, law_api_key)
    /\ IF ~IsDetail(detail)
       THEN IF DetailUnavailable(law_api_key, db_error)
            THEN EndRequest("ServiceUnavailable")
            ELSE EndRequest("NotFound")
       ELSE EndRequest("RESPOND")
    /\ UNCHANGED <<apart, law_api_key, db_laws, db_articles, flow, req, results, total_count,
                   detail, source, db_error, need_remote_fallback, law_name_known, raw,
                   hist>>

(***************************************************************************)
(* In-document section search: search_articles.                            *)
(***************************************************************************)
\* " ".join([article_no, title or "", content]).strip(); no article has a title
ArticleSearchable(a) == Strip(JoinWith(<<a.article_no, <<>>, a.content>>, " "))

\* the WHERE clause: article_no or content ILIKE %tok% for a token of q (or for q)
ArticleLikeMatches(a, q) ==
    LET tokens   == Tokens(q)
        patterns == IF tokens # <<>> THEN tokens ELSE <<q>>
    IN  \E i \in 1..Len(patterns) :
           \/ Contains(Lower(a.article_no), Lower(patterns[i]))
           \/ Contains(Lower(a.content), Lower(patterns[i]))

\* the sort key (-r.score, r.article_no)
ArticleKeyLess(a, b) ==
    \/ a.score > b.score
    \/ a.score = b.score /\ StrLess(a.article_no, b.article_no)

RECURSIVE SortArticles(_)
SortArticles(s) ==
    IF Len(s) <= 1 THEN s
    ELSE LET front == SortArticles(SubSeq(s, 1, Len(s) - 1))
             r     == s[Len(s)]
             k     == Cardinality({i \in 1..Len(front) : ~ArticleKeyLess(r, front[i])})
         IN  SubSeq(front, 1, k) \o <<r>> \o SubSeq(front, k + 1, Len(front))

\* the scored list of both tiers: the rows with score > 0, sorted.  like: the rows
\* come from the primary store's LIKE query
ScoreArticles(articles, q, like) ==
    LET RECURSIVE scored(_)
        scored(rows) ==
            IF rows = <<>> THEN <<>>
            ELSE LET a == Head(rows)
                     sc == _lexical_score(ArticleSearchable(a), q)
                 IN  (IF (like => ArticleLikeMatches(a, q)) /\ sc > 0
                      THEN <<[article_no |-> a.article_no, score |-> sc]>>
                      ELSE <<>>) \o scored(Tail(rows))
    IN  SortArticles(scored(articles))

\* "if need_remote_fallback and settings.law_api_key"
ArticlesFallsBack(need, key) == need /\ key

\* "if need_remote_fallback and not settings.law_api_key and db_error is None
\*  and law_name_kr is None"
ArticlesNotFound(need, key, err, name_known) == need /\ ~key /\ ~err /\ ~name_known

\* faulty variant: the check reads "db_error is None"
ArticlesUnavailable_ErrorIsNone(need, key, err) == need /\ ~key /\ ~err

\* "if need_remote_fallback and not settings.law_api_key and db_error is not None"
ArticlesUnavailable(need, key, err) == need /\ ~key /\ err

\* faulty variant: the fallback is needed also when the law is stored with articles
NeedRemoteFallback_Always(law, article_total, raised) == TRUE

\* need_remote_fallback after the DB-first block: the law is missing, it has no
\* articles, or a statement raised
NeedRemoteFallback(law, article_total, raised) ==
    raised \/ ~law \/ article_total = 0

\* 1) DB-first; raises: the statement that raises ("none", "get", "count", "select")
ArticlesPrimary(law_id, query, top_k, raises) ==
    /\ Idle
    /\ LET law           == law_id \in db_laws
           article_total == IF law THEN Len(db_articles[law_id]) ELSE 0
           searched      == ~NeedRemoteFallback(law, article_total, raises # "none")
           scored        == IF searched
                            THEN ScoreArticles(db_articles[law_id], Strip(query), TRUE)
                            ELSE <<>>
       IN  /\ raises = "count" => law
           /\ raises = "select" => law /\ article_total > 0
           /\ law_name_known' = (law /\ raises # "get")
           /\ need_remote_fallback' = ~searched
           /\ results' = Take(scored, top_k)
           /\ total_count' = Len(scored)
           /\ source' = IF searched THEN "postgres" ELSE "none"
           /\ db_error' = (raises # "none")
           /\ hist' = [NoHist EXCEPT
                          !.primary = IF raises # "none" THEN "error"
                                      ELSE IF scored # <<>> THEN "rows" ELSE "empty",
                          !.prim_results = Take(scored, top_k),
                          !.law_in_db = law,
                          !.article_total = article_total]
    /\ NewRequest("search_articles",
                  [NoRequest EXCEPT !.law_id = law_id, !.query = query, !.top_k = top_k])
    /\ detail' = NoDetail
    /\ pc' = "sa_fallback"

\* 2) the law.go.kr fallback; ok: the remote call succeeds
ArticlesSecondary(ok) ==
    /\ pc = "sa_fallback"
    /\ flow = "search_articles"
    /\ ArticlesFallsBack(need_remote_fallback, law_api_key)
    /\ LET d      == fetch_law_detail(req.law_id, TRUE, FALSE, ok)
           scored == IF IsDetail(d) THEN ScoreArticles(d.articles, req.query, FALSE)
                     ELSE <<>>
           h      == [hist EXCEPT !.sec_calls = @ + 1,
                                  !.sec_down = ~ok,
                                  !.sec = IF IsDetail(d) THEN "rows" ELSE "empty"]
       IN  /\ detail' = d
           /\ IF ~IsDetail(d)
              THEN /\ EndRequest("NotFound")
                   /\ hist' = h
                   /\ UNCHANGED <<results, total_count, source, law_name_known>>
              ELSE /\ law_name_known' = TRUE
                   /\ results' = Take(scored, req.top_k)
                   /\ total_count' = Len(scored)
                   /\ source' = "law.go.kr"
                   /\ hist' = [h EXCEPT !.snap = [results |-> results', total_count |-> total_count',
                                                 detail |-> d]]
                   /\ pc' = "dt_writeback"
                   /\ UNCHANGED <<outcome, sess_laws, sess_articles>>
    /\ UNCHANGED <<apart, law_api_key, db_laws, db_articles, flow, req, db_error,
                   need_remote_fallback, raw>>

\* 3) the 404 / 503 checks, and the response
ArticlesFinish ==
    /\ flow = "search_articles"
    /\ \/ pc = "finish"
       \/ pc = "sa_fallback" /\ ~ArticlesFallsBack(need_remote_fallback, law_api_key)
    /\ IF ArticlesNotFound(need_remote_fallback, law_api_key, db_error, law_name_known)
       THEN EndRequest("NotFound")
       ELSE IF ArticlesUnavailable(need_remote_fallback, law_api_key, db_error)
       THEN EndRequest("ServiceUnavailable")
       ELSE EndRequest("RESPOND")
    /\ UNCHANGED <<apart, law_api_key, db_laws, db_articles, flow, req, results, total_count,
                   detail, source, db_error, need_remote_fallback, law_name_known, raw,
                   hist>>

(***************************************************************************)
(* The end of a write-back: "await db.commit()", and on any exception      *)
(* "await db.rollback()", whose own exception is passed over.              *)
(***************************************************************************)
\* "except Exception: try: await db.rollback()": a failed write-back is not raised
WriteBackErrorCaught == TRUE

\* faulty variant: the exception of a failed rollback leaves the handler
RollbackErrorRaised == FALSE

\* "except Exception: pass": a failed rollback is not raised
RollbackErrorPassed == TRUE

Commit(ok) ==
    /\ pc = "commit"
    /\ hist' = [hist EXCEPT !.commits = @ + 1,
                            !.wb_fail = IF ok THEN "none" ELSE "commit"]
    /\ IF ok
       THEN /\ db_laws' = sess_laws
            /\ db_articles' = sess_articles
            /\ pc' = "finish"
            /\ UNCHANGED <<outcome, sess_laws, sess_articles>>
       ELSE /\ UNCHANGED <<db_laws, db_articles>>
            /\ IF WriteBackErrorCaught
               THEN pc' = "rollback" /\ UNCHANGED <<outcome, sess_laws, sess_articles>>
               ELSE EndRequest("InternalServerError")
    /\ UNCHANGED <<apart, law_api_key, flow, req, results, total_count, detail, source,
                   db_error, need_remote_fallback, law_name_known, raw>>

\* faulty variant: after the rollback the commit is tried again
Rollback_RetriesCommit(ok) ==
    /\ pc = "rollback"
    /\ hist' = [hist EXCEPT !.rb_fail = ~ok]
    /\ pc' = "commit"
    /\ UNCHANGED <<apart, law_api_key, db_laws, db_articles, sess_laws, sess_articles, flow, req,
                   results, total_count, detail, source, db_error, need_remote_fallback,
                   law_name_known, raw, outcome>>

Rollback(ok) ==
    /\ pc = "rollback"
    /\ hist' = [hist EXCEPT !.rb_fail = ~ok]
    /\ IF ok \/ RollbackErrorPassed
       THEN /\ pc' = "finish"
            /\ sess_laws' = IF ok THEN db_laws ELSE sess_laws
            /\ sess_articles' = IF ok THEN db_articles ELSE sess_articles
            /\ UNCHANGED outcome
       ELSE EndRequest("InternalServerError")
    /\ UNCHANGED <<apart, law_api_key, db_laws, db_articles, flow, req, results, total_count,
                   detail, source, db_error, need_remote_fallback, law_name_known, raw>>

\* the handler has returned (or raised): its locals are gone
Return ==
    /\ pc = "done"
    /\ pc' = "idle"
    /\ flow' = "none"
    /\ req' = NoRequest
    /\ results' = <<>>
    /\ total_count' = 0
    /\ detail' = NoDetail
    /\ source' = "none"
    /\ db_error' = FALSE
    /\ need_remote_fallback' = FALSE
    /\ law_name_known' = FALSE
    /\ raw' = <<>>
    /\ outcome' = "none"
    /\ hist' = NoHist
    /\ UNCHANGED <<apart, law_api_key, db_laws, db_articles, sess_laws, sess_articles>>

\* a law_search request arrives; the db.execute of sub-query f raises (0: none)
LawSearchRequest ==
    /\ Idle
    /\ \E q \in Queries, k \in TopKs :
          \E f \in 0..Len(_split_query_list(q)) : LawSearchPrimary(q, k, f)

LawSearchFallback ==
    /\ pc = "ls_fallback"
    /\ \E failed \in SUBSET (1..Len(to_query_list(req.query))), bad \in BOOLEAN :
          LawSearchSecondary(failed, bad)

LawSearchCache ==
    /\ pc = "ls_writeback"
    /\ \E f \in 0..Len(raw) : LawSearchWriteBack(f)

\* a get_law_detail request arrives
DetailRequest ==
    /\ Idle
    /\ \E id \in RequestLawIds, ia \in BOOLEAN, ift \in BOOLEAN, raises \in BOOLEAN :
          DetailPrimary(id, ia, ift, raises)

\* a search_articles request arrives
ArticlesRequest ==
    /\ Idle
    /\ \E id \in RequestLawIds, q \in ArticleQueries, k \in TopKs :
          \E raises \in {"none", "get", "count", "select"} :
             ArticlesPrimary(id, q, k, raises)

DetailCache ==
    /\ pc = "dt_writeback"
    /\ \E f \in 0..Len(DetailStatements(detail)) : DetailWriteBack(f)

Next ==
    \/ LawSearchRequest
    \/ LawSearchFallback
    \/ LawSearchCache
    \/ LawSearchFinish
    \/ DetailRequest
    \/ \E ok \in BOOLEAN : DetailSecondary(ok)
    \/ DetailFinish
    \/ ArticlesRequest
    \/ \E ok \in BOOLEAN : ArticlesSecondary(ok)
    \/ ArticlesFinish
    \/ DetailCache
    \/ \E ok \in BOOLEAN : Commit(ok)
    \/ \E ok \in BOOLEAN : Rollback(ok)
    \/ Return

Spec == Init /\ [][Next]_vars

(***************************************************************************)
(* The aggregators step by step: when each sub-query search is issued,     *)
(* when it completes, and when its rows are merged.                        *)
(***************************************************************************)
Completed(st) == st \in {"done", "failed"}

\* search_law up to asyncio.gather: an empty query_list returns []; otherwise
\* one fetch_law_for_query per sub-query is handed to gather, which starts all
SearchLawGather(query, top_k) ==
    /\ tasks.phase = "idle"
    /\ LET query_list == to_query_list(query)
           n          == Len(query_list)
       IN  tasks' = IF n = 0
                    THEN [NoTasks EXCEPT !.agg = "remote", !.phase = "returned",
                                         !.query = query, !.top_k = top_k]
                    ELSE [NoTasks EXCEPT !.agg = "remote", !.phase = "running",
                                         !.query = query, !.top_k = top_k,
                                         !.query_list = query_list,
                                         !.status = [i \in 1..n |-> "running"],
                                         !.result = [i \in 1..n |-> <<>>]]
    /\ UNCHANGED not_aggregator

\* one fetch_law_for_query completes, with its rows or (a failed call) with []
FetchCompletes(i, ok) ==
    /\ tasks.agg = "remote" /\ tasks.phase = "running"
    /\ i \in 1..Len(tasks.status)
    /\ tasks.status[i] = "running"
    /\ LET per_query == PerQuery(tasks.top_k, Len(tasks.query_list))
       IN  tasks' = [tasks EXCEPT
                        !.status[i] = IF ok THEN "done" ELSE "failed",
                        !.result[i] = fetch_law_for_query(tasks.query_list[i], per_query, ~ok),
                        !.order = Append(@, i)]
    /\ UNCHANGED not_aggregator

\* gather has returned: the results are taken in the order of query_list,
\* tagged with their term, and cut to top_k
SearchLawAggregate ==
    /\ tasks.agg = "remote" /\ tasks.phase = "running"
    /\ \A i \in 1..Len(tasks.status) : Completed(tasks.status[i])
    /\ LET RECURSIVE aggregated(_)
           aggregated(i) ==
               IF i > Len(tasks.query_list) THEN <<>>
               ELSE [k \in 1..Len(tasks.result[i]) |->
                        [keyword |-> tasks.query_list[i], law_id |-> tasks.result[i][k]]]
                    \o aggregated(i + 1)
       IN  tasks' = [tasks EXCEPT !.merging = TRUE,
                                  !.out = Take(aggregated(1), tasks.top_k),
                                  !.phase = "returned"]
    /\ UNCHANGED not_aggregator

\* _db_search_laws up to the first db.execute: an empty query_list returns [];
\* otherwise the loop enters its first iteration and awaits that sub-query
DbSearchStart(query, top_k) ==
    /\ tasks.phase = "idle"
    /\ LET query_list == _split_query_list(query)
           n          == Len(query_list)
       IN  tasks' = IF n = 0
                    THEN [NoTasks EXCEPT !.agg = "db", !.phase = "returned",
                                         !.query = query, !.top_k = top_k]
                    ELSE [NoTasks EXCEPT !.agg = "db", !.phase = "running",
                                         !.query = query, !.top_k = top_k,
                                         !.query_list = query_list,
                                         !.status = [i \in 1..n |->
                                                        IF i = 1 THEN "running" ELSE "new"],
                                         !.result = [i \in 1..n |-> <<>>]]
    /\ UNCHANGED not_aggregator

\* the awaited db.execute completes.  With rows: they are scored, sorted, cut
\* and merged into by_id, and the loop goes on to the next sub-query or, after
\* the last, returns the sorted and cut result.  With an exception: it leaves
\* the loop and the function
DbExecuteCompletes(ok) ==
    /\ tasks.agg = "db" /\ tasks.phase = "running"
    /\ LET n         == Len(tasks.query_list)
           i         == CHOOSE k \in 1..n : tasks.status[k] = "running"
           per_query == PerQuery(tasks.top_k, n)
           rows      == DbSubSearch(db_laws, tasks.query_list[i], per_query, tasks.top_k)
           by_id     == MergeRows(tasks.by_id, rows)
       IN  tasks' = IF ~ok
                    THEN [tasks EXCEPT !.status[i] = "failed",
                                       !.order = Append(@, i),
                                       !.phase = "raised"]
                    ELSE IF i < n
                    THEN [tasks EXCEPT !.status[i] = "done",
                                       !.status[i + 1] = "running",
                                       !.result[i] = SeqOfIds({r.law_id : r \in Range(rows)}),
                                       !.order = Append(@, i),
                                       !.merging = TRUE,
                                       !.by_id = by_id]
                    ELSE [tasks EXCEPT !.status[i] = "done",
                                       !.result[i] = SeqOfIds({r.law_id : r \in Range(rows)}),
                                       !.order = Append(@, i),
                                       !.merging = TRUE,
                                       !.by_id = by_id,
                                       !.out = Take(SortResults(by_id), tasks.top_k),
                                       !.phase = "returned"]
    /\ UNCHANGED not_aggregator

\* the caller has the aggregator's value or its exception
AggregatorEnds ==
    /\ tasks.phase \in {"returned", "raised"}
    /\ tasks' = NoTasks
    /\ UNCHANGED not_aggregator

\* the queries the aggregators are called with: those of the requests, and a term
\* with a law id that no other term matches
AggregatorQueries == Queries \cup {<<"a", ",", "3">>}

SearchLawCall ==
    /\ tasks.phase = "idle"
    /\ \E query \in AggregatorQueries, top_k \in TopKs : SearchLawGather(query, top_k)

DbSearchCall ==
    /\ tasks.phase = "idle"
    /\ \E query \in AggregatorQueries, top_k \in TopKs : DbSearchStart(query, top_k)

FetchStep ==
    /\ tasks.agg = "remote" /\ tasks.phase = "running"
    /\ \E i \in 1..Len(tasks.status), ok \in BOOLEAN : FetchCompletes(i, ok)

AggNext ==
    \/ SearchLawCall
    \/ FetchStep
    \/ SearchLawAggregate
    \/ DbSearchCall
    \/ \E ok \in BOOLEAN : DbExecuteCompletes(ok)
    \/ AggregatorEnds

AggSpec == Init /\ [][AggNext]_vars

(***************************************************************************)
(* Properties.                                                             *)
(***************************************************************************)
Done == pc = "done"

InLawSearch == flow = "law_search"

\* the response rows are the collector's rows, one for one
SameRows(res, rows) ==
    /\ Len(res) = Len(rows)
    /\ \A i \in 1..Len(rows) : res[i].law_id = rows[i].law_id

\* C1: law_search: when the primary query returns rows, the request ends in
\* RESPOND with source=primary (postgres) and those rows; during the request the
\* secondary source is never called, the write-back is never called, and no
\* statement or commit reaches the primary store.
C1_PrimaryRowsEndTheFlow ==
    (InLawSearch /\ hist.primary = "rows") =>
        /\ hist.sec_calls = 0
        /\ hist.wb_calls = 0 /\ hist.writes = 0 /\ hist.commits = 0
        /\ pc \in {"ls_fallback", "done"}
        /\ Done => /\ outcome = "RESPOND"
                   /\ source = "postgres"
                   /\ results = hist.prim_results
                   /\ total_count = Len(results)

\* C1 witness: a law_search that found rows in the primary store has ended,
\* with the secondary source configured
C1_Witness ==
    /\ InLawSearch /\ Done /\ law_api_key
    /\ hist.primary = "rows" /\ outcome = "RESPOND"

ResponseUnchanged ==
    /\ source = "law.go.kr"
    /\ flow = "law_search" =>
          results = hist.snap.results /\ total_count = Len(hist.snap.results)
    /\ flow = "get_law_detail" => detail = hist.snap.detail
    /\ flow = "search_articles" =>
          /\ results = hist.snap.results
          /\ total_count = hist.snap.total_count

\* C3: in the three flows, when a step of the write-back fails (an upsert, the
\* delete, the insert, the commit, and the rollback after any of them), the
\* request still ends in RESPOND with the response computed from the secondary
\* source, unchanged.
C3_WriteBackFailureIsNotRaised ==
    (Done /\ hist.wb_fail # "none") => (outcome = "RESPOND" /\ ResponseUnchanged)

\* C3 witness: a search_articles request ended after its write-back failed at
\* the insert of the articles and the rollback failed too
C3_Witness ==
    /\ flow = "search_articles" /\ Done
    /\ hist.wb_fail = "insert" /\ hist.rb_fail
    /\ results # <<>>

C5_EmptyPrimaryWithoutSecondaryResponds ==
    (InLawSearch /\ Done /\ hist.primary = "empty" /\ ~law_api_key) =>
        /\ outcome = "RESPOND"
        /\ results = <<>>
        /\ total_count = 0

\* C5 witness: such a request ended, for a query with two sub-queries
C5_Witness ==
    /\ InLawSearch /\ Done /\ hist.primary = "empty" /\ ~law_api_key
    /\ hist.n_sub = 2 /\ outcome = "RESPOND"

\* C6: in every flow the write-back (a call of it, a statement or a commit on
\* the primary store) happens only after the secondary source returned a
\* non-empty result; when the secondary returned an empty result the request
\* ends without a write to the primary store and without source=secondary, and
\* a law_search ends in RESPOND.
C6_WriteBackOnlyAfterSecondaryRows ==
    /\ (hist.wb_calls > 0 \/ hist.writes > 0 \/ hist.commits > 0) => hist.sec = "rows"
    /\ (Done /\ hist.sec = "empty") =>
          /\ hist.wb_calls = 0 /\ hist.writes = 0 /\ hist.commits = 0
          /\ source # "law.go.kr"
          /\ InLawSearch => outcome = "RESPOND"

\* C7: when the primary query raises and every call of the configured
\* secondary source fails, the request does not end as a successful response.
C7_BothTiersDownFails ==
    (Done /\ hist.primary = "error" /\ law_api_key /\ hist.sec_down) =>
        outcome # "RESPOND"

\* C8 as claimed: search_articles calls the secondary source only when the law
\* is missing from the primary store or has no article there.
C8_SecondaryOnlyWhenMissingOrNoArticles ==
    (flow = "search_articles" /\ hist.sec_calls > 0) =>
        (~hist.law_in_db \/ hist.article_total = 0)

\* C8 amended: search_articles calls the secondary source only when the law is
\* missing from the primary store, has no article there, or the primary query
\* raised; when the law is there with an article and the query did not raise,
\* the secondary is never called, also when no article matches.
C8_SecondaryOnlyWhenMissingNoArticlesOrError ==
    flow = "search_articles" =>
        /\ hist.sec_calls > 0 =>
              (~hist.law_in_db \/ hist.article_total = 0 \/ hist.primary = "error")
        /\ (hist.law_in_db /\ hist.article_total > 0 /\ hist.primary # "error") =>
              /\ hist.sec_calls = 0 /\ hist.wb_calls = 0
              /\ pc \in {"sa_fallback", "done"}
              /\ Done => outcome = "RESPOND" /\ source = "postgres"

\* C8 witness: a search_articles request on a law stored with articles, none of
\* which matches the query, ended with the secondary configured and not called
C8_Witness ==
    /\ flow = "search_articles" /\ Done /\ law_api_key
    /\ hist.law_in_db /\ hist.article_total > 0 /\ hist.primary = "empty"
    /\ results = <<>> /\ hist.sec_calls = 0

LawSearchOutcomes == {"RESPOND", "ServiceUnavailable", "InternalServerError"}

\* the steps of law_search after the secondary source has answered
LawSearchLaterStep ==
    \/ LawSearchCache
    \/ LawSearchFinish
    \/ \E ok \in BOOLEAN : Commit(ok)
    \/ \E ok \in BOOLEAN : Rollback(ok)

\* how far a handler has come
Rank(p) ==
    CASE p = "idle" -> 0
      [] p \in {"ls_fallback", "gd_fallback", "sa_fallback"} -> 1
      [] p \in {"ls_writeback", "dt_writeback"} -> 2
      [] p = "commit" -> 3
      [] p = "rollback" -> 4
      [] p = "finish" -> 5
      [] OTHER -> 6

RECURSIVE IsolatedMerge(_, _, _, _, _, _)
IsolatedMerge(laws, query_list, top_k, fail_at, i, by_id) ==
    IF i > Len(query_list) THEN Take(SortResults(by_id), top_k)
    ELSE IsolatedMerge(laws, query_list, top_k, fail_at, i + 1,
             IF i = fail_at THEN by_id
             ELSE MergeRows(by_id, DbSubSearch(laws, query_list[i],
                                PerQuery(top_k, Len(query_list)), top_k)))

\* C10: for a query with n >= 2 sub-queries, when the search of one sub-query
\* fails, the other sub-queries are still searched and their merged results
\* returned, the failing one adds nothing and no error shows: in
\* _db_search_laws (right after the primary query) and in search_law.
C10_SubQueryFailuresAreIsolated ==
    /\ (InLawSearch /\ pc = "ls_fallback" /\ hist.n_sub >= 2 /\ hist.fail_at # 0) =>
          /\ ~db_error
          /\ hist.searched = (1..hist.n_sub) \ {hist.fail_at}
          /\ results = IsolatedMerge(db_laws, _split_query_list(req.query), req.top_k,
                                     hist.fail_at, 1, <<>>)
    /\ (InLawSearch /\ hist.sec_calls > 0 /\ hist.n_sub >= 2) =>
          /\ hist.sec # "raised"
          /\ \A i \in 1..Len(raw) :
                \E j \in (1..hist.n_sub) \ hist.remote_failed :
                   raw[i].keyword = _split_query_list(req.query)[j]

(***************************************************************************)
(* Properties of the aggregation.                                          *)
(***************************************************************************)
\* no two rows of a result carry the same law id
NoDuplicateIds(rows) ==
    \A i, j \in 1..Len(rows) : rows[i].law_id = rows[j].law_id => i = j

\* C11: the result of the multi-query aggregation never holds two entries with
\* the same law id, for every compound query and top_k: what _db_search_laws
\* returned to law_search, and what search_law returned to it.
C11_NoDuplicateIds ==
    /\ (InLawSearch /\ hist.primary # "none") => NoDuplicateIds(hist.prim_results)
    /\ (InLawSearch /\ hist.sec_calls > 0) => NoDuplicateIds(raw)

\* the scores given to the law id, read off the contributed rows
ContributedScores(laws, query, top_k, id) ==
    LET query_list == _split_query_list(query)
        per_query  == PerQuery(top_k, Len(query_list))
    IN  { c.score : c \in { d \in UNION { Range(DbSubSearch(laws, query_list[i], per_query, top_k)) :
                                            i \in 1..Len(query_list) } : d.law_id = id } }

\* C12: for every law id in the merged result of _db_search_laws, the score of
\* the kept entry is the maximum of the scores the sub-queries' contributed
\* rows gave to that id, in whatever order the sub-queries stand.
C12_MergeKeepsMaxScore ==
    (InLawSearch /\ hist.primary = "rows") =>
        \A k \in 1..Len(hist.prim_results) :
            LET r  == hist.prim_results[k]
                sc == ContributedScores(db_laws, req.query, req.top_k, r.law_id)
            IN  sc # {} /\ r.score = SetMax(sc)

\* C12 witness: two sub-queries contributed the same law with different
\* scores, the lower one last, and the law is in the result
C12_Witness ==
    /\ InLawSearch /\ hist.primary = "rows" /\ hist.n_sub = 2
    /\ \E k \in 1..Len(hist.prim_results) :
          LET id == hist.prim_results[k].law_id
              ql == _split_query_list(req.query)
              pq == PerQuery(req.top_k, 2)
              c1 == {d \in Range(DbSubSearch(db_laws, ql[1], pq, req.top_k)) : d.law_id = id}
              c2 == {d \in Range(DbSubSearch(db_laws, ql[2], pq, req.top_k)) : d.law_id = id}
          IN  \E x \in c1, y \in c2 : x.score > y.score

\* the rows of raw that sub-queries with the term q brought
RowsOfKeyword(rows, q) == {i \in 1..Len(rows) : rows[i].keyword = q}

\* C13: with n non-empty sub-queries and requested count top_k the budget of a
\* sub-query is max(1, top_k // n), and each sub-query brings at most that many
\* rows to the merge, in _db_search_laws and in search_law; a query with no
\* non-empty sub-query gives an empty result and nothing is searched.
C13_PerQueryBudget ==
    LET ql     == _split_query_list(req.query)
        n      == Len(ql)
        budget == IF n = 0 THEN 0
                  ELSE IF req.top_k \div n >= 1 THEN req.top_k \div n ELSE 1
    IN  /\ (InLawSearch /\ pc = "ls_fallback") =>
              /\ n = 0 => /\ hist.searched = {}
                          /\ hist.prim_results = <<>>
                          /\ hist.primary = "empty"
              /\ \A i \in hist.searched :
                    Len(DbSubSearch(db_laws, ql[i], PerQuery(req.top_k, n), req.top_k))
                       <= budget
              /\ Len(hist.prim_results) <= n * budget
        /\ (InLawSearch /\ hist.sec_calls > 0) =>
              /\ n = 0 => raw = <<>>
              /\ \A i \in 1..n :
                    Cardinality(RowsOfKeyword(raw, ql[i]))
                       <= budget * Cardinality({j \in 1..n : ql[j] = ql[i]})

\* C13 witness: two sub-queries share a top_k of 2, one of them matches more
\* laws of the primary store than its budget of 1 and brings one row
C13_Witness ==
    /\ InLawSearch /\ pc = "ls_fallback" /\ hist.n_sub = 2 /\ req.top_k = 2
    /\ hist.searched = {1, 2}
    /\ \E i \in 1..2 :
          LET q == _split_query_list(req.query)[i]
          IN  /\ Cardinality({id \in db_laws : LikeMatches(id, q)
                                 /\ _lexical_score(Searchable(id), q) > 0}) >= 2
              /\ Len(DbSubSearch(db_laws, q, 1, 2)) = 1

\* C14: the result of _db_search_laws is in order of non-increasing score,
\* entries of equal score in ascending order of their display name, and it has
\* at most top_k entries; the result of search_law has at most top_k entries.
C14_ResultOrderedAndCut ==
    /\ (InLawSearch /\ hist.primary # "none") =>
          /\ Len(hist.prim_results) <= req.top_k
          /\ \A i, j \in 1..Len(hist.prim_results) :
                i < j =>
                   /\ hist.prim_results[i].score >= hist.prim_results[j].score
                   /\ hist.prim_results[i].score = hist.prim_results[j].score =>
                         ~StrLess(hist.prim_results[j].law_name_kr,
                                  hist.prim_results[i].law_name_kr)
    /\ (InLawSearch /\ hist.sec_calls > 0) => Len(raw) <= req.top_k

\* C14 witness: a result of two entries of equal score in the order of their
\* names, the first of them brought by the second sub-query
C14_Witness ==
    /\ InLawSearch /\ pc = "ls_fallback" /\ hist.n_sub = 2
    /\ Len(hist.prim_results) = 2
    /\ hist.prim_results[1].score = hist.prim_results[2].score
    /\ StrLess(hist.prim_results[1].law_name_kr, hist.prim_results[2].law_name_kr)
    /\ \A d \in Range(DbSubSearch(db_laws, _split_query_list(req.query)[1], 1, req.top_k)) :
          d.law_id # hist.prim_results[1].law_id

\* C15: within one aggregator call the sub-query searches run concurrently
\* (while the call runs, none of them is still to be issued), they are all
\* joined before merging starts, the returned value is the same for every
\* order of completion, and a failed search leaves its siblings to complete
\* (when the call ends each of them has completed).
C15_SubQueriesConcurrentAndJoined ==
    LET n        == Len(tasks.status)
        failures == {i \in 1..n : tasks.status[i] = "failed"}
    IN  /\ tasks.phase = "running" => \A i \in 1..n : tasks.status[i] # "new"
        /\ tasks.merging => \A i \in 1..n : Completed(tasks.status[i])
        /\ tasks.phase \in {"returned", "raised"} =>
              \A i \in 1..n : Completed(tasks.status[i])
        /\ (tasks.phase = "returned" /\ tasks.agg = "remote") =>
              tasks.out = search_law(tasks.query, tasks.top_k, failures)
        /\ (tasks.phase = "returned" /\ tasks.agg = "db") =>
              tasks.out = _db_search_laws(db_laws, tasks.query, tasks.top_k, 0).results

(***************************************************************************)
(* Cache keys: Cache._make_key.                                            *)
(***************************************************************************)
\* "if len(key_string) > 250"
KeyLimit == 250

\* the length of hashlib.md5(...).hexdigest()
HashLen == 32

HexDigits == <<"0", "1", "2", "3", "4", "5", "6", "7",
               "8", "9", "a", "b", "c", "d", "e", "f">>

\* a string of n characters c
Repeat(c, n) == [i \in 1..n |-> c]

\* hashlib.md5(s.encode()).hexdigest(): 32 hexadecimal digits that depend on
\* the content of s (here on its length and on its count of each character)
Md5Hex(s) ==
    LET count(c) == Cardinality({i \in 1..Len(s) : s[i] = c})
        sum      == Len(s) + 3 * count("a") + 5 * count("b") + 7 * count(":")
                           + 11 * count("1") + 13 * count("x") + 17 * count("y")
    IN  [i \in 1..HashLen |-> HexDigits[((sum * i + i) % 16) + 1]]

\* Cache._make_key(prefix, *args) of a cache configured with config_prefix
_make_key(config_prefix, prefix, args) ==
    LET key_parts  == <<config_prefix, prefix>> \o args
        key_string == JoinWith(key_parts, ":")
    IN  IF Len(key_string) > KeyLimit
        THEN JoinWith([key_parts EXCEPT ![Len(key_parts)] = Md5Hex(key_string)], ":")
        ELSE key_string

\* the configured prefixes, the namespaces and the arguments keys are made of
ConfigPrefixes == { <<"p">>, Repeat("x", 120) }

Namespaces == { <<"a">>, <<"a", "b">>, <<"a", ":", "b">>, Repeat("y", 120) }

KeyArgs == { <<"1">>, <<"b">>, Repeat("x", 120), Repeat("y", 251) }

ArgLists == {<<>>} \cup SeqsUpTo(KeyArgs, MaxArgs)

\* a key is made
MakeKey(config_prefix, prefix, args) ==
    /\ mk' = [config_prefix |-> config_prefix, prefix |-> prefix, args |-> args,
              key |-> _make_key(config_prefix, prefix, args)]
    /\ UNCHANGED not_keymaker

KeyNext ==
    \E config_prefix \in ConfigPrefixes, prefix \in Namespaces, args \in ArgLists :
        MakeKey(config_prefix, prefix, args)

KeyInit ==
    /\ HandlerAtRest
    /\ tasks = NoTasks
    /\ mk = NoKey
    /\ CacheAtRest
    /\ StoreAtRest

KeySpec == KeyInit /\ [][KeyNext]_vars

\* C19: for every configured prefix, namespace and argument list the key
\* _make_key returns has at most 250 characters.
C19_KeyWithinLimit ==
    mk # NoKey => Len(mk.key) <= KeyLimit

(***************************************************************************)
(* The cache: InMemoryCache and RedisCache.                                *)
(***************************************************************************)
\* largest value of the clock
MaxClock == 3

\* config.ttl, the default time to live (3600 in CacheConfig; the model's
\* clock counts in units that make it 2)
ConfigTtl == 2

\* config.prefix of the cache the calls go to
CachePrefix == <<"p">>

\* the namespaces and argument lists the callers make their keys of
KeyTable ==
    { [prefix |-> <<"a">>, args |-> << <<"1">> >>],
      [prefix |-> <<"a", "b">>, args |-> << <<"1">> >>],
      [prefix |-> <<"a", ":", "b">>, args |-> << <<"1">> >>] }

\* the keys the callers use
CacheKeys == { _make_key(CachePrefix, t.prefix, t.args) : t \in KeyTable }

CacheValues == {"v", "w"}

\* the ttl arguments of set: None (-1), 0, 1
Ttls == {-1, 0, 1}

\* store[key] = e
Put(store, key, e) ==
    [k \in DOMAIN store \cup {key} |-> IF k = key THEN e ELSE store[k]]

\* del store[key] for the keys of ks
Drop(store, ks) == [k \in DOMAIN store \ ks |-> store[k]]

\* str.startswith
StartsWith(s, pre) == Len(pre) <= Len(s) /\ SubSeq(s, 1, Len(pre)) = pre

\* faulty variant: nothing is swept
_cleanup_expired_Skipped(store, now) == store

\* _cleanup_expired: the entries with expiry_time < current_time are deleted
_cleanup_expired(store, now) ==
    Drop(store, {k \in DOMAIN store : store[k].expiry < now})

\* faulty variant: get returns what is stored, expired or not
InMemoryGet_NoExpiry(store, key, now) ==
    IF key \in DOMAIN store
    THEN [store |-> store, found |-> TRUE, value |-> store[key].value]
    ELSE [store |-> store, found |-> FALSE, value |-> ""]

\* InMemoryCache.get past its initialization check: the store it leaves and
\* the value it returns (found: the value is not None)
InMemoryGet(store, key, now) ==
    LET swept == _cleanup_expired(store, now)
    IN  IF key \notin DOMAIN swept
        THEN [store |-> swept, found |-> FALSE, value |-> ""]
        ELSE IF now > swept[key].expiry
        THEN [store |-> Drop(swept, {key}), found |-> FALSE, value |-> ""]
        ELSE [store |-> swept, found |-> TRUE, value |-> swept[key].value]

\* the keys the Redis server shows: it expires a key ttl seconds after setex
RedisVisible(store, now) == {k \in DOMAIN store : now < store[k].expiry}

\* RedisCache.get past its initialization check
RedisGet(store, key, now) ==
    IF key \in RedisVisible(store, now)
    THEN [store |-> store, found |-> TRUE, value |-> store[key].value]
    ELSE [store |-> store, found |-> FALSE, value |-> ""]

\* "ttl = ttl or self.config.ttl"
EffectiveTtl(ttl) == IF ttl = -1 \/ ttl = 0 THEN ConfigTtl ELSE ttl

\* the call raises RuntimeError("Cache not initialized") and changes nothing
NotInitialized(op, key) ==
    /\ ~cache_initialized
    /\ cache_ret' = [NoRet EXCEPT !.op = op, !.key = key, !.at = clock,
                                  !.uninit = TRUE, !.error = TRUE]
    /\ UNCHANGED <<cache_type, cache_initialized, cache_store, clock>>

\* initialize(): the in-process cache sets _initialized; the Redis cache makes
\* its client (redis.from_url opens no connection)
CacheInitialize ==
    /\ cache_initialized' = TRUE
    /\ cache_ret' = [NoRet EXCEPT !.op = "initialize", !.at = clock,
                                  !.uninit = ~cache_initialized]
    /\ UNCHANGED <<cache_type, cache_store, clock>>
    /\ UNCHANGED not_cache

\* faulty variant: closing a handle that is not open raises
CacheClose_RaisesWhenClosed ==
    /\ cache_initialized' = FALSE
    /\ cache_store' = IF cache_type = "in_memory" THEN [k \in {} |-> NoEntry]
                      ELSE cache_store
    /\ cache_ret' = [NoRet EXCEPT !.op = "close", !.at = clock,
                                  !.uninit = ~cache_initialized,
                                  !.error = ~cache_initialized]
    /\ UNCHANGED <<cache_type, clock>>
    /\ UNCHANGED not_cache

\* close(): the in-process cache clears its store; the Redis cache closes its
\* client and the server keeps its keys
CacheClose ==
    /\ cache_initialized' = FALSE
    /\ cache_store' = IF cache_type = "in_memory" THEN [k \in {} |-> NoEntry]
                      ELSE cache_store
    /\ cache_ret' = [NoRet EXCEPT !.op = "close", !.at = clock,
                                  !.uninit = ~cache_initialized]
    /\ UNCHANGED <<cache_type, clock>>
    /\ UNCHANGED not_cache

\* the key's entry is stored and the time is past its expiry
PastExpiry(key) == key \in DOMAIN cache_store /\ clock > cache_store[key].expiry

\* get(key)
CacheGet(key) ==
    /\ \/ NotInitialized("get", key)
       \/ /\ cache_initialized
          /\ LET r == IF cache_type = "in_memory"
                      THEN InMemoryGet(cache_store, key, clock)
                      ELSE RedisGet(cache_store, key, clock)
             IN  /\ cache_store' = r.store
                 /\ cache_ret' = [NoRet EXCEPT !.op = "get", !.key = key, !.at = clock,
                                               !.found = r.found, !.value = r.value,
                                               !.expired = PastExpiry(key),
                                               !.removed = DOMAIN cache_store \ DOMAIN r.store]
          /\ UNCHANGED <<cache_type, cache_initialized, clock>>
    /\ UNCHANGED not_cache

\* exists(key): the in-process cache asks get and answers "value is not None";
\* the Redis cache asks the server
CacheExists(key) ==
    /\ \/ NotInitialized("exists", key)
       \/ /\ cache_initialized
          /\ LET r == IF cache_type = "in_memory"
                      THEN InMemoryGet(cache_store, key, clock)
                      ELSE RedisGet(cache_store, key, clock)
             IN  /\ cache_store' = r.store
                 /\ cache_ret' = [NoRet EXCEPT !.op = "exists", !.key = key, !.at = clock,
                                               !.found = r.found,
                                               !.expired = PastExpiry(key),
                                               !.removed = DOMAIN cache_store \ DOMAIN r.store]
          /\ UNCHANGED <<cache_type, cache_initialized, clock>>
    /\ UNCHANGED not_cache

\* set(key, value, ttl): _store[key] = (value, time.time() + ttl), or
\* client.setex(key, ttl, value)
CacheSet(key, value, ttl) ==
    /\ \/ NotInitialized("set", key)
       \/ /\ cache_initialized
          /\ cache_store' = Put(cache_store, key,
                                [value |-> value, expiry |-> clock + EffectiveTtl(ttl)])
          /\ cache_ret' = [NoRet EXCEPT !.op = "set", !.key = key, !.at = clock,
                                        !.value = value, !.ttl = ttl]
          /\ UNCHANGED <<cache_type, cache_initialized, clock>>
    /\ UNCHANGED not_cache

\* delete(key)
CacheDelete(key) ==
    /\ \/ NotInitialized("delete", key)
       \/ /\ cache_initialized
          /\ cache_store' = Drop(cache_store, {key})
          /\ cache_ret' = [NoRet EXCEPT !.op = "delete", !.key = key, !.at = clock]
          /\ UNCHANGED <<cache_type, cache_initialized, clock>>
    /\ UNCHANGED not_cache

\* full_prefix = f"{self.config.prefix}:{prefix}:"
FullPrefix(prefix) == CachePrefix \o <<":">> \o prefix \o <<":">>

\* clear_prefix(prefix): the keys that start with full_prefix are deleted (the
\* Redis cache scans the keys the server shows for full_prefix + "*")
CacheClearPrefix(prefix) ==
    /\ \/ NotInitialized("clear_prefix", prefix)
       \/ /\ cache_initialized
          /\ LET scanned == IF cache_type = "in_memory" THEN DOMAIN cache_store
                            ELSE RedisVisible(cache_store, clock)
                 keys_to_delete == {k \in scanned : StartsWith(k, FullPrefix(prefix))}
             IN  /\ cache_store' = Drop(cache_store, keys_to_delete)
                 /\ cache_ret' = [NoRet EXCEPT !.op = "clear_prefix", !.key = prefix,
                                               !.at = clock, !.removed = keys_to_delete]
          /\ UNCHANGED <<cache_type, cache_initialized, clock>>
    /\ UNCHANGED not_cache

\* time passes
Tick ==
    /\ clock < MaxClock
    /\ clock' = clock + 1
    /\ cache_ret' = NoRet
    /\ UNCHANGED <<cache_type, cache_initialized, cache_store>>
    /\ UNCHANGED not_cache

CacheNext ==
    \/ CacheInitialize
    \/ CacheClose
    \/ \E key \in CacheKeys : CacheGet(key)
    \/ \E key \in CacheKeys : CacheExists(key)
    \/ \E key \in CacheKeys, value \in CacheValues, ttl \in Ttls : CacheSet(key, value, ttl)
    \/ \E key \in CacheKeys : CacheDelete(key)
    \/ \E t \in KeyTable : CacheClearPrefix(t.prefix)
    \/ Tick

\* a cache of either type, as constructed
CacheInit ==
    /\ HandlerAtRest
    /\ tasks = NoTasks
    /\ mk = NoKey
    /\ cache_type \in {"in_memory", "redis"}
    /\ cache_initialized = FALSE
    /\ cache_store = [k \in {} |-> NoEntry]
    /\ clock = 0
    /\ cache_ret = NoRet
    /\ StoreAtRest

CacheSpec == CacheInit /\ [][CacheNext]_vars

\* C16: on the in-process cache, after any sequence of calls and clock
\* advances, get(key) returns absent and exists(key) returns false whenever the
\* time is past the expiry of the entry stored for key, purged or not; so a
\* value that get or exists did find is stored and not past its expiry.
C16_ExpiredEntryInvisible ==
    (cache_type = "in_memory" /\ cache_ret.op \in {"get", "exists"} /\ ~cache_ret.error) =>
        /\ cache_ret.expired => (~cache_ret.found /\ cache_ret.value = "")
        /\ cache_ret.found =>
              /\ cache_ret.key \in DOMAIN cache_store
              /\ clock <= cache_store[cache_ret.key].expiry

\* C16 witness: get found nothing for a key whose entry was still in the store,
\* past its expiry, when it was called
C16_Witness ==
    /\ cache_type = "in_memory" /\ cache_ret.op = "get" /\ ~cache_ret.error
    /\ cache_ret.expired /\ ~cache_ret.found

\* C17: set without ttl makes the entry expire config.ttl after the write; set
\* with a ttl t >= 0, t = 0 too, makes it expire t after the write; a later set
\* on the key replaces value and expiry.
C17_SetExpiry ==
    (cache_ret.op = "set" /\ ~cache_ret.error) =>
        /\ cache_ret.key \in DOMAIN cache_store
        /\ cache_store[cache_ret.key].value = cache_ret.value
        /\ cache_store[cache_ret.key].expiry =
              cache_ret.at + (IF cache_ret.ttl = -1 THEN ConfigTtl ELSE cache_ret.ttl)

\* the namespaces, other than prefix, under which callers make the key
OtherNamespacesOf(key, prefix) ==
    { t.prefix : t \in { u \in KeyTable :
                            u.prefix # prefix /\ _make_key(CachePrefix, u.prefix, u.args) = key } }

\* C18: clear_prefix(p) removes only entries whose key was made under the
\* namespace p: no key made under another namespace q, one whose name
\* extends p too, is deleted, and the entries left keep value and expiry.
C18_ClearPrefixOnlyItsNamespace ==
    (cache_ret.op = "clear_prefix" /\ ~cache_ret.error) =>
        \A key \in cache_ret.removed : OtherNamespacesOf(key, cache_ret.key) = {}

(***************************************************************************)
(* The vector store: InMemoryVectorStore, FileSystemVectorStore and        *)
(* QdrantVectorStore.  A collection is the sequence of its documents in    *)
(* the order they were first written.  Cosine scores are in units of       *)
(* 1/300, the weights of hybrid_search in tenths, and the scores of the    *)
(* results of hybrid_search in units of 1/3000.                            *)
(***************************************************************************)

\* longest list of documents, or of ids, one call carries
MaxDocs == 2

\* config.collection_name
DefaultCollection == "default"

\* config.embedding_dimension
EmbeddingDimension == 2

\* search(..., top_k: int = 10, ...)
DefaultTopK == 10

\* the collection argument: "" is None
CollectionArgs == {"", "c2"}

\* collection or self.config.collection_name
_get_collection_name(collection) ==
    IF collection = "" THEN DefaultCollection ELSE collection

StoreCollections == {_get_collection_name(c) : c \in CollectionArgs}

DocIds == {"d1", "d2"}

\* filters is {"k": "x"}, or None or {}, both written ""; a document's metadata is
\* {"k": v}, or {} written ""
Filters == {"", "x"}

QueryEmbeddings == {<<1, 0>>, <<0, 0>>}

\* the documents callers write: two of the same id, one of them with an embedding
\* that is not of the configured dimension
Documents ==
    {[id |-> "d1", embedding |-> <<1, 0>>, content |-> <<"a">>, metadata |-> "x"],
     [id |-> "d1", embedding |-> <<1>>, content |-> <<"b">>, metadata |-> "y"],
     [id |-> "d2", embedding |-> <<3, 4>>, content |-> <<"a", " ", "b">>, metadata |-> ""]}

\* an id that begins with a dot, and a document of that id
DottedId == ".d"
DottedDocument ==
    [id |-> DottedId, embedding |-> <<1, 0>>, content |-> <<"a">>, metadata |-> ""]

\* the ids character by character
IdChars(id) ==
    CASE id = "d1" -> <<"d", "1">>
      [] id = "d2" -> <<"d", "2">>
      [] id = DottedId -> <<".", "d">>

\* FileSystemVectorStore._get_document_path: the name of the document's file
_get_document_path(doc_id) == IdChars(doc_id) \o <<".json">>

\* FileSystemVectorStore._get_all_documents: the files of the collection directory
\* whose name does not start with a dot
_get_all_documents(docs) ==
    SelectSeq(docs, LAMBDA d : Head(_get_document_path(d.id)) # ".")

DocLists == {<<>>} \cup SeqsUpTo(Documents, MaxDocs)
IdLists == {<<>>} \cup SeqsUpTo(DocIds, MaxDocs)

\* the same with ids of any form: a plain id and a dotted one
AnyIdDocLists ==
    {<<>>} \cup SeqsUpTo({d \in Documents : d.id = "d2"} \cup {DottedDocument}, MaxDocs)
AnyIdLists == {<<>>} \cup SeqsUpTo({"d2", DottedId}, MaxDocs)

\* what callers of hybrid_search ask: the text, its embedding, and the weights in
\* tenths (the defaults are 0.7 and 0.3)
HybridQueries ==
    {[query |-> <<"b">>, query_embedding |-> <<0, 0>>,
      vector_weight |-> 7, lexical_weight |-> 3],
     [query |-> <<>>, query_embedding |-> <<1, 0>>,
      vector_weight |-> 7, lexical_weight |-> 3],
     [query |-> <<" ">>, query_embedding |-> <<1, 0>>,
      vector_weight |-> 10, lexical_weight |-> 10],
     [query |-> <<"a", " ", "b">>, query_embedding |-> <<1, 0>>,
      vector_weight |-> 10, lexical_weight |-> 0]}

\* those that leave the weights to their defaults
DefaultHybridQueries ==
    {q \in HybridQueries : q.vector_weight = 7 /\ q.lexical_weight = 3}

\* the documents of a collection, none if it does not exist
DocsOf(colls, name) == IF name \in DOMAIN colls THEN colls[name] ELSE <<>>

\* the collections with those of name set to docs
WithCollection(colls, name, docs) ==
    [c \in DOMAIN colls \cup {name} |-> IF c = name THEN docs ELSE colls[c]]

\* the collections without that of name
WithoutCollection(colls, name) == [c \in DOMAIN colls \ {name} |-> colls[c]]

\* self._collections[coll_name] on a defaultdict(dict): the collection comes to exist
Touched(colls, name) == WithCollection(colls, name, DocsOf(colls, name))

\* collection[doc.id] = doc: a known id keeps its place
Upsert(docs, doc) ==
    IF \E i \in DOMAIN docs : docs[i].id = doc.id
    THEN [i \in DOMAIN docs |-> IF docs[i].id = doc.id THEN doc ELSE docs[i]]
    ELSE Append(docs, doc)

RECURSIVE UpsertAll(_, _)
UpsertAll(docs, documents) ==
    IF documents = <<>> THEN docs
    ELSE UpsertAll(Upsert(docs, Head(documents)), Tail(documents))

\* the documents without those of the ids
Without(docs, ids) == SelectSeq(docs, LAMBDA d : d.id \notin ids)

\* the ids of the documents, in order
IdsOf(documents) == [i \in DOMAIN documents |-> documents[i].id]

\* the orders a directory listing, or the server, may give the documents in
Orders(docs) ==
    {[i \in DOMAIN docs |-> docs[f[i]]] : f \in Permutations(DOMAIN docs)}

\* all(doc.metadata.get(k) == v for k, v in filters.items()), and "if filters"
Passes(doc, filters) == filters = "" \/ doc.metadata = filters

Filtered(docs, filters) == SelectSeq(docs, LAMBDA d : Passes(d, filters))

RECURSIVE DotFrom(_, _, _)
DotFrom(a, b, i) == IF i > Len(a) THEN 0 ELSE a[i] * b[i] + DotFrom(a, b, i + 1)

\* np.dot
Dot(a, b) == DotFrom(a, b, 1)

\* np.linalg.norm, of the vectors whose norm is whole
Norm(v) == CHOOSE n \in 0..Dot(v, v) : n * n = Dot(v, v)

\* _cosine_similarity, in units of 1/300
_cosine_similarity(vec1, vec2) ==
    IF Norm(vec1) = 0 \/ Norm(vec2) = 0 THEN 0
    ELSE (Dot(vec1, vec2) * 300) \div (Norm(vec1) * Norm(vec2))

\* json.dumps(doc.metadata)
JsonDumps(metadata) ==
    IF metadata = "" THEN <<"{", "}">>
    ELSE <<"{", "\"", "k", "\"", ":", " ", "\"", metadata, "\"", "}">>

\* FileSystemVectorStore._lexical_search: the score of one document, in units of 1/300
LexicalSearchScore(query, doc) ==
    LET query_lower     == Lower(query)
        searchable_text == Lower(doc.content \o <<" ">> \o JsonDumps(doc.metadata))
        words           == Tokens(query_lower)
        found           == {i \in DOMAIN words : Contains(searchable_text, words[i])}
    IN  (IF Contains(searchable_text, query_lower) THEN 240 ELSE 0)
            + (IF words = <<>> THEN 0 ELSE Cardinality(found) * (60 \div Len(words)))

\* faulty variant: the rows are left in the order the documents were listed in
SortByScore_Unsorted(rows) == rows

\* results_with_scores.sort(key=lambda x: x[1], reverse=True), which is stable
RECURSIVE SortByScore(_)
SortByScore(rows) ==
    IF Len(rows) <= 1 THEN rows
    ELSE LET front == SortByScore(SubSeq(rows, 1, Len(rows) - 1))
             r     == rows[Len(rows)]
             k     == Cardinality({i \in 1..Len(front) : front[i].score >= r.score})
         IN  SubSeq(front, 1, k) \o <<r>> \o SubSeq(front, k + 1, Len(front))

\* SearchResult(id, score, metadata)
ResultRow(doc, score) == [id |-> doc.id, score |-> score, metadata |-> doc.metadata]

\* search of the in-process and file-backed stores over the documents as listed
VectorSearch(documents, query_embedding, top_k, filters) ==
    LET filtered_docs == Filtered(documents, filters)
        rows == [i \in DOMAIN filtered_docs |->
                    ResultRow(filtered_docs[i],
                              _cosine_similarity(query_embedding, filtered_docs[i].embedding))]
    IN  Take(SortByScore(rows), top_k)

\* FileSystemVectorStore.hybrid_search over the documents as listed
FileSystemHybrid(documents, query, query_embedding, top_k, filters, vector_weight, lexical_weight) ==
    LET filtered_docs == Filtered(documents, filters)
        rows == [i \in DOMAIN filtered_docs |->
                    ResultRow(filtered_docs[i],
                              _cosine_similarity(query_embedding, filtered_docs[i].embedding)
                                  * vector_weight
                              + LexicalSearchScore(query, filtered_docs[i])
                                  * lexical_weight)]
    IN  Take(SortByScore(rows), top_k)

\* the rows with their scores, which are in units of 1/300, written in units of 1/3000
InHybridUnits(rows) == [i \in DOMAIN rows |-> [rows[i] EXCEPT !.score = @ * 10]]

\* InMemoryVectorStore.hybrid_search: the vector search alone
InMemoryHybrid(documents, query_embedding, top_k, filters) ==
    InHybridUnits(Take(VectorSearch(documents, query_embedding, top_k * 2, filters), top_k))

\* the end of a store call: what it returned or raised, and the collections it leaves
StoreReturns(ret, colls) ==
    /\ store_ret' = [NoStoreRet EXCEPT !.op = ret.op,
                                       !.collection = ret.collection,
                                       !.asked = ret.asked,
                                       !.ids = ret.ids,
                                       !.added = ret.added,
                                       !.results = ret.results,
                                       !.count = ret.count,
                                       !.exists = ret.exists,
                                       !.error = ret.error,
                                       !.uninit = ~store_initialized,
                                       !.changed = (colls # store_colls)]
    /\ store_colls' = colls
    /\ UNCHANGED <<store_type, store_initialized, not_store>>

\* the call raises and leaves the collections as they were
StoreRaises(ret, error) == StoreReturns([ret EXCEPT !.error = error], store_colls)

\* QdrantVectorStore: "if not self.client: raise RuntimeError(...)"
StoreNotInitialized(op, name, ids) ==
    StoreRaises([NoStoreRet EXCEPT !.op = op, !.collection = name, !.ids = ids],
                "not_initialized")

\* the server refuses the request: UnexpectedResponse
StoreRemoteError(op, name, ids) ==
    StoreRaises([NoStoreRet EXCEPT !.op = op, !.collection = name, !.ids = ids], "remote")

\* np.dot of vectors of different lengths raises ValueError: the filtered documents
\* whose embedding is not as long as the query's
Misaligned(documents, query_embedding, filters) ==
    {i \in DOMAIN documents : /\ Passes(documents[i], filters)
                              /\ Len(documents[i].embedding) # Len(query_embedding)}

\* the Qdrant handle has no client
NoClient == store_type = "qdrant" /\ ~store_initialized

\* initialize(): the remote store needs its url, makes its client, then makes sure
\* of its collection, which may fail
StoreInitialize ==
    /\ \E url_set \in BOOLEAN, ensured \in BOOLEAN :
          /\ store_type # "qdrant" => (url_set /\ ensured)
          /\ store_initialized' = IF store_type = "qdrant" THEN store_initialized \/ url_set
                                   ELSE TRUE
          /\ store_colls' = IF store_type = "qdrant" /\ url_set /\ ensured
                            THEN Touched(store_colls, DefaultCollection)
                            ELSE store_colls
          /\ store_ret' = [NoStoreRet EXCEPT
                              !.op = "initialize",
                              !.uninit = ~store_initialized,
                              !.changed = (store_colls' # store_colls),
                              !.error = IF ~url_set THEN "value"
                                        ELSE IF ~ensured THEN "remote" ELSE "none"]
    /\ UNCHANGED <<store_type, not_store>>

\* close(): the in-process store forgets its collections
StoreClose ==
    /\ store_initialized' = FALSE
    /\ store_colls' = IF store_type = "in_memory" THEN [c \in {} |-> <<>>] ELSE store_colls
    /\ store_ret' = [NoStoreRet EXCEPT !.op = "close",
                                       !.uninit = ~store_initialized,
                                       !.changed = (store_colls' # store_colls)]
    /\ UNCHANGED <<store_type, not_store>>

AddDocuments(documents, collection) ==
    LET name == _get_collection_name(collection)
        ret  == [NoStoreRet EXCEPT !.op = "add_documents", !.collection = name,
                                   !.ids = IdsOf(documents), !.added = IdsOf(documents)]
        docs == UpsertAll(DocsOf(store_colls, name), documents)
    IN  IF NoClient THEN StoreNotInitialized("add_documents", name, IdsOf(documents))
        \* the server has no such collection, or its vectors are of another size
        ELSE IF /\ store_type = "qdrant"
                /\ \/ name \notin DOMAIN store_colls
                   \/ \E i \in DOMAIN documents :
                          Len(documents[i].embedding) # EmbeddingDimension
        THEN StoreRemoteError("add_documents", name, IdsOf(documents))
        ELSE StoreReturns(ret, IF documents = <<>> THEN store_colls
                               ELSE WithCollection(store_colls, name, docs))

DeleteDocuments(ids, collection) ==
    LET name    == _get_collection_name(collection)
        present == {d \in Range(ids) : \E i \in DOMAIN DocsOf(store_colls, name) :
                                           DocsOf(store_colls, name)[i].id = d}
        docs    == Without(DocsOf(store_colls, name), Range(ids))
        ret     == [NoStoreRet EXCEPT !.op = "delete_documents", !.collection = name,
                                      !.ids = ids]
    IN  IF NoClient THEN StoreNotInitialized("delete_documents", name, ids)
        ELSE IF store_type = "qdrant"
        THEN IF name \notin DOMAIN store_colls
             THEN StoreRemoteError("delete_documents", name, ids)
             ELSE StoreReturns([ret EXCEPT !.count = Len(ids)],
                               WithCollection(store_colls, name, docs))
        ELSE IF store_type = "in_memory"
        THEN StoreReturns([ret EXCEPT !.count = Cardinality(present)],
                          IF ids = <<>> THEN store_colls
                          ELSE WithCollection(store_colls, name, docs))
        ELSE StoreReturns([ret EXCEPT !.count = Cardinality(present)],
                          IF name \in DOMAIN store_colls
                          THEN WithCollection(store_colls, name, docs)
                          ELSE store_colls)

Search(query_embedding, top_k, collection, filters) ==
    LET name == _get_collection_name(collection)
        ret  == [NoStoreRet EXCEPT
                    !.op = "search", !.collection = name,
                    !.asked = [NoAsk EXCEPT !.query_embedding = query_embedding,
                                            !.top_k = top_k, !.filters = filters]]
        docs == DocsOf(store_colls, name)
    IN  IF NoClient THEN StoreRaises(ret, "not_initialized")
        ELSE IF store_type = "qdrant" /\ name \notin DOMAIN store_colls
        THEN StoreRaises(ret, "remote")
        ELSE IF store_type = "in_memory"
        THEN IF Misaligned(docs, query_embedding, filters) # {}
             THEN StoreReturns([ret EXCEPT !.error = "value"], Touched(store_colls, name))
             ELSE StoreReturns([ret EXCEPT !.results =
                                   VectorSearch(docs, query_embedding, top_k, filters)],
                               Touched(store_colls, name))
        ELSE IF /\ store_type = "file_system"
                /\ Misaligned(_get_all_documents(docs), query_embedding, filters) # {}
        THEN StoreRaises(ret, "value")
        ELSE \E documents \in Orders(IF store_type = "file_system"
                                     THEN _get_all_documents(docs) ELSE docs) :
                StoreReturns([ret EXCEPT !.results =
                                 VectorSearch(documents, query_embedding, top_k, filters)],
                             store_colls)

HybridSearch(query, query_embedding, top_k, collection, filters, vector_weight, lexical_weight) ==
    LET name == _get_collection_name(collection)
        ret  == [NoStoreRet EXCEPT
                    !.op = "hybrid_search", !.collection = name,
                    !.asked = [query |-> query, query_embedding |-> query_embedding,
                               top_k |-> top_k, filters |-> filters,
                               vector_weight |-> vector_weight,
                               lexical_weight |-> lexical_weight]]
        docs == DocsOf(store_colls, name)
    IN  IF NoClient THEN StoreRaises(ret, "not_initialized")
        ELSE IF store_type = "in_memory"
        THEN IF Misaligned(docs, query_embedding, filters) # {}
             THEN StoreReturns([ret EXCEPT !.error = "value"], Touched(store_colls, name))
             ELSE StoreReturns([ret EXCEPT !.results =
                                   InMemoryHybrid(docs, query_embedding, top_k, filters)],
                               Touched(store_colls, name))
        ELSE IF store_type = "file_system"
        THEN IF Misaligned(_get_all_documents(docs), query_embedding, filters) # {}
             THEN StoreRaises(ret, "value")
             ELSE \E documents \in Orders(_get_all_documents(docs)) :
                     StoreReturns([ret EXCEPT !.results =
                                      FileSystemHybrid(documents, query, query_embedding,
                                                       top_k, filters, vector_weight,
                                                       lexical_weight)],
                                  store_colls)
        \* the server answers the named-vector search, or refuses it (UnexpectedResponse,
        \* which gives no results)
        ELSE \E documents \in Orders(docs), answered \in BOOLEAN :
                /\ name \notin DOMAIN store_colls => ~answered
                /\ StoreReturns([ret EXCEPT !.results =
                                    IF answered
                                    THEN InHybridUnits(VectorSearch(documents,
                                                                    query_embedding,
                                                                    top_k, filters))
                                    ELSE <<>>],
                                store_colls)

CountDocuments(collection, filters) ==
    LET name == _get_collection_name(collection)
        ret  == [NoStoreRet EXCEPT !.op = "count_documents", !.collection = name,
                                   !.asked = [NoAsk EXCEPT !.filters = filters]]
    IN  IF NoClient THEN StoreRaises(ret, "not_initialized")
        ELSE IF store_type = "qdrant"
        THEN IF name \notin DOMAIN store_colls
             THEN StoreRaises(ret, "remote")
             \* count_filter=None: the filters are not passed on
             ELSE StoreReturns([ret EXCEPT !.count = Len(DocsOf(store_colls, name))],
                               store_colls)
        ELSE IF store_type = "in_memory"
        THEN StoreReturns([ret EXCEPT !.count =
                              Len(Filtered(DocsOf(store_colls, name), filters))],
                          Touched(store_colls, name))
        ELSE StoreReturns([ret EXCEPT !.count =
                              Len(Filtered(_get_all_documents(DocsOf(store_colls, name)),
                                           filters))],
                          store_colls)

DeleteCollection(name) ==
    IF NoClient THEN StoreNotInitialized("delete_collection", name, <<>>)
    ELSE StoreReturns([NoStoreRet EXCEPT !.op = "delete_collection", !.collection = name],
                      WithoutCollection(store_colls, name))

\* QdrantVectorStore.collection_exists answers False without a client
CollectionExists(name) ==
    LET ret == [NoStoreRet EXCEPT !.op = "collection_exists", !.collection = name,
                                  !.exists = ~NoClient /\ name \in DOMAIN store_colls]
    IN  StoreReturns(ret, store_colls)

StoreNext ==
    \/ StoreInitialize
    \/ StoreClose
    \/ \E documents \in DocLists, collection \in CollectionArgs :
          AddDocuments(documents, collection)
    \/ \E ids \in IdLists, collection \in CollectionArgs : DeleteDocuments(ids, collection)
    \* the searches with top_k and filters left to their defaults
    \/ \E query_embedding \in QueryEmbeddings, collection \in CollectionArgs :
          Search(query_embedding, DefaultTopK, collection, "")
    \/ \E q \in DefaultHybridQueries, collection \in CollectionArgs :
          HybridSearch(q.query, q.query_embedding, DefaultTopK, collection, "",
                       q.vector_weight, q.lexical_weight)
    \/ \E collection \in CollectionArgs, filters \in Filters :
          CountDocuments(collection, filters)
    \/ \E name \in StoreCollections : DeleteCollection(name)
    \/ \E name \in StoreCollections : CollectionExists(name)

\* a store of any type, as constructed
StoreInit ==
    /\ HandlerAtRest
    /\ tasks = NoTasks
    /\ mk = NoKey
    /\ CacheAtRest
    /\ store_type \in {"in_memory", "file_system", "qdrant"}
    /\ store_initialized = FALSE
    /\ store_colls = [c \in {} |-> <<>>]
    /\ store_ret = NoStoreRet
    /\ calc = NoCalc
    /\ job = NoJob
    /\ law_rows = NoRows
    /\ overlap = NoOverlap

StoreSpec == StoreInit /\ [][StoreNext]_vars

(***************************************************************************)
(* The searches of the store on their own: one search, hybrid search or    *)
(* count, with any arguments, on an open store holding any documents.      *)
(***************************************************************************)

\* what a collection may hold: documents of different ids, in any order
CollectionContents ==
    {docs \in {<<>>} \cup SeqsUpTo(Documents, Cardinality(DocIds)) :
        \A i, j \in DOMAIN docs : i # j => docs[i].id # docs[j].id}

\* what add_documents can have left in the store: the remote store takes no
\* document of another dimension, and has the collection it made sure of
StoreContents(type) ==
    {colls \in UNION {[S -> CollectionContents] : S \in SUBSET StoreCollections} :
        type = "qdrant" =>
            /\ DOMAIN colls = {DefaultCollection}
            /\ \A i \in DOMAIN colls[DefaultCollection] :
                   Len(colls[DefaultCollection][i].embedding) = EmbeddingDimension}

SearchInit ==
    /\ HandlerAtRest
    /\ tasks = NoTasks
    /\ mk = NoKey
    /\ CacheAtRest
    /\ store_type \in {"in_memory", "file_system", "qdrant"}
    /\ store_initialized = TRUE
    /\ store_colls \in StoreContents(store_type)
    /\ store_ret = NoStoreRet
    /\ calc = NoCalc
    /\ job = NoJob
    /\ law_rows = NoRows
    /\ overlap = NoOverlap

\* no call has been made on the store
FirstCall == store_ret = NoStoreRet

SearchNext ==
    \/ \E query_embedding \in QueryEmbeddings, top_k \in 0..MaxTopK,
          collection \in CollectionArgs, filters \in Filters :
          FirstCall /\ Search(query_embedding, top_k, collection, filters)
    \/ \E q \in HybridQueries, top_k \in 0..MaxTopK, collection \in CollectionArgs,
          filters \in Filters :
          FirstCall /\ HybridSearch(q.query, q.query_embedding, top_k, collection, filters,
                                    q.vector_weight, q.lexical_weight)
    \/ \E collection \in CollectionArgs, filters \in Filters :
          FirstCall /\ CountDocuments(collection, filters)

SearchSpec == SearchInit /\ [][SearchNext]_vars

(***************************************************************************)
(* Properties of the store.                                                *)
(***************************************************************************)

\* the data operations of a store, and of a cache
StoreDataOps ==
    {"add_documents", "delete_documents", "search", "hybrid_search", "count_documents",
     "delete_collection", "collection_exists"}
CacheDataOps == {"get", "set", "delete", "exists", "clear_prefix"}

\* C20: a data operation of a store or of a cache called on a handle that is not
\* initialized (before initialize() or after close()) fails with the not-initialized
\* error and leaves the backend's state as it was.
C20_UninitializedCallFails ==
    /\ (store_ret.op \in StoreDataOps /\ store_ret.uninit) =>
           (store_ret.error = "not_initialized" /\ ~store_ret.changed)
    /\ (cache_ret.op \in CacheDataOps /\ cache_ret.uninit) => cache_ret.error

(***************************************************************************)
(* The backends together: the process works on its cache or on its vector  *)
(* store, one handle from its construction on.                             *)
(***************************************************************************)

BackendInit == CacheInit \/ StoreInit

BackendNext ==
    \/ StoreAtRest /\ CacheNext
    \/ CacheAtRest /\ StoreNext

BackendSpec == BackendInit /\ [][BackendNext]_vars

\* C21: close() may be called any number of times on every store and cache
\* backend, also before initialize(): it never raises, it leaves the handle closed,
\* and a close() that follows a close() leaves the backend's state as the first left it.
C21_CloseIdempotent ==
    /\ [](cache_ret.op = "close" => (~cache_ret.error /\ ~cache_initialized))
    /\ [](store_ret.op = "close" => (store_ret.error = "none" /\ ~store_initialized))
    /\ [][(cache_ret.op = "close" /\ cache_ret'.op = "close") =>
              (cache_store' = cache_store /\ cache_initialized' = cache_initialized)]_vars
    /\ [][(store_ret.op = "close" /\ store_ret'.op = "close") =>
              (store_colls' = store_colls /\ store_initialized' = store_initialized)]_vars

\* a handle that was already closed has been closed again, its backend holding data
C21_Witness ==
    \/ cache_ret.op = "close" /\ cache_ret.uninit /\ DOMAIN cache_store # {}
    \/ store_ret.op = "close" /\ store_ret.uninit /\ DOMAIN store_colls # {}

(***************************************************************************)
(* Properties of the searches.                                             *)
(***************************************************************************)

\* a search of the in-process or of the file-backed store has returned
LocalSearchReturned ==
    /\ store_type \in {"in_memory", "file_system"}
    /\ store_ret.op \in {"search", "hybrid_search"}
    /\ store_ret.error = "none"

\* the documents of the collection the last call was about
AskedDocs == DocsOf(store_colls, store_ret.collection)

\* C22: the results of search and hybrid_search on the in-process and file-backed
\* stores are non-increasing by score, are at most top_k, and each is a different
\* document of the collection that passes the filters.
C22_ResultsRankedCutAndFiltered ==
    LocalSearchReturned =>
        LET rows == store_ret.results
        IN  /\ \A i, j \in DOMAIN rows : i < j => rows[i].score >= rows[j].score
            /\ Len(rows) <= store_ret.asked.top_k
            /\ \A i, j \in DOMAIN rows : i # j => rows[i].id # rows[j].id
            /\ \A i \in DOMAIN rows :
                  \E k \in DOMAIN AskedDocs :
                     /\ AskedDocs[k].id = rows[i].id
                     /\ AskedDocs[k].metadata = rows[i].metadata
                     /\ \/ store_ret.asked.filters = ""
                        \/ AskedDocs[k].metadata = store_ret.asked.filters

\* a search cut to top_k = 1 has returned the better of two documents, which was
\* not the first one listed
C22_Witness ==
    /\ LocalSearchReturned
    /\ store_ret.asked.top_k = 1
    /\ Len(AskedDocs) = 2
    /\ Len(store_ret.results) = 1
    /\ store_ret.results[1].id = AskedDocs[2].id
    /\ store_ret.results[1].score > 0

\* a hybrid search of the in-process or of the file-backed store has returned
LocalHybridReturned == LocalSearchReturned /\ store_ret.op = "hybrid_search"

\* vector_score * vector_weight + lexical_score * lexical_weight, in units of 1/3000
CombinedScore(doc, asked) ==
    _cosine_similarity(asked.query_embedding, doc.embedding) * asked.vector_weight
        + LexicalSearchScore(asked.query, doc) * asked.lexical_weight

\* the place of the document of that id in the rows, 0 if it is not among them
PlaceOf(rows, id) ==
    IF \E i \in DOMAIN rows : rows[i].id = id
    THEN CHOOSE i \in DOMAIN rows : rows[i].id = id
    ELSE 0

\* the document's content holds the query text
HoldsQueryText(doc, query) == Contains(Lower(doc.content), Lower(query))

\* C23: hybrid_search on the in-process and file-backed stores gives every result
\* the score vector_score * vector_weight + lexical_score * lexical_weight with the
\* weights as passed, and with lexical_weight > 0 a document that holds the query
\* text is ranked before a document of the same vector score that does not.
C23_HybridScoreIsCombined ==
    LocalHybridReturned =>
        LET rows  == store_ret.results
            asked == store_ret.asked
            cands == Filtered(AskedDocs, asked.filters)
        IN  /\ \A i \in DOMAIN rows :
                  \E k \in DOMAIN cands :
                     /\ cands[k].id = rows[i].id
                     /\ rows[i].score = CombinedScore(cands[k], asked)
            /\ asked.lexical_weight > 0 =>
                  \A k, l \in DOMAIN cands :
                     ( /\ _cosine_similarity(asked.query_embedding, cands[k].embedding)
                            = _cosine_similarity(asked.query_embedding, cands[l].embedding)
                       /\ HoldsQueryText(cands[k], asked.query)
                       /\ ~HoldsQueryText(cands[l], asked.query)
                       /\ PlaceOf(rows, cands[l].id) # 0 )
                     => ( /\ PlaceOf(rows, cands[k].id) # 0
                          /\ PlaceOf(rows, cands[k].id) < PlaceOf(rows, cands[l].id) )

\* the document's metadata equals the filter's value on every key of the filter
MatchesFilter(metadata, filters) == filters = "" \/ metadata = filters

\* C24: on every backend count_documents(collection, filters) is the number of the
\* collection's documents whose metadata matches the filters, search and
\* hybrid_search return only such documents, and no filter restricts nothing.
C24_FiltersAreConjunctiveEquality ==
    /\ (store_ret.op = "count_documents" /\ store_ret.error = "none") =>
           store_ret.count =
              Cardinality({k \in DOMAIN AskedDocs :
                              MatchesFilter(AskedDocs[k].metadata, store_ret.asked.filters)})
    /\ (store_ret.op \in {"search", "hybrid_search"} /\ store_ret.error = "none") =>
           \A i \in DOMAIN store_ret.results :
              MatchesFilter(store_ret.results[i].metadata, store_ret.asked.filters)

(***************************************************************************)
(* The scoring and snippet functions followed on their own: one call of    *)
(* _lexical_score, of FileSystemVectorStore._lexical_search over one       *)
(* document, or of _make_snippet, on a short text and query.               *)
(***************************************************************************)
\* the longest text followed
MaxTextLen == 3

TextChars == {"a", "A", "b", " "}

Texts == {<<>>} \cup SeqsUpTo(TextChars, MaxTextLen)

QueryTexts == {<<>>} \cup SeqsUpTo(TextChars, 2)

\* the window argument of _make_snippet (120 unless the caller passes one)
Windows == {2, 4}

\* the markers _make_snippet writes, each one element of the string
EmOpen == "<em>"
EmClose == "</em>"
Ellipsis == "..."

\* str.find: the 0-based index of the first occurrence of q in t, or -1
Find(t, q) ==
    LET at == {i \in 0..(Len(t) - Len(q)) : SubSeq(t, i + 1, i + Len(q)) = q}
    IN  IF at = {} THEN -1 ELSE SetMin(at)

\* text[:window] + ("..." if len(text) > window else ""), stripped
HeadOf(text, window) ==
    Strip(Take(text, window) \o (IF Len(text) > window THEN <<Ellipsis>> ELSE <<>>))

\* re.sub(re.escape(highlight_target), f"<em>{highlight_target}</em>", snippet,
\* flags=re.IGNORECASE): every occurrence, left to right, whatever its casing, is
\* replaced by the target as the query spells it, between the markers
RECURSIVE ReSubIgnoreCase(_, _)
ReSubIgnoreCase(snippet, highlight_target) ==
    LET n == Len(highlight_target)
    IN  IF snippet = <<>> THEN <<>>
        ELSE IF n <= Len(snippet) /\ Lower(SubSeq(snippet, 1, n)) = Lower(highlight_target)
        THEN <<EmOpen>> \o highlight_target \o <<EmClose>>
                 \o ReSubIgnoreCase(SubSeq(snippet, n + 1, Len(snippet)), highlight_target)
        ELSE <<Head(snippet)>> \o ReSubIgnoreCase(Tail(snippet), highlight_target)

\* the first token of q found in the text, as an index into tokens, or 0
FirstTokenFound(lower_text, tokens) ==
    LET found == {k \in DOMAIN tokens : Find(lower_text, Lower(tokens[k])) # -1}
    IN  IF found = {} THEN 0 ELSE SetMin(found)

_make_snippet(text, query, window) ==
    LET q          == Strip(query)
        lower_text == Lower(text)
        whole      == Find(lower_text, Lower(q))
        tokens     == Tokens(q)
        k          == IF whole = -1 THEN FirstTokenFound(lower_text, tokens) ELSE 0
        idx        == IF whole # -1 THEN whole
                      ELSE IF k = 0 THEN -1
                      ELSE Find(lower_text, Lower(tokens[k]))
        highlight_target == IF whole = -1 /\ k # 0 THEN tokens[k] ELSE q
        start      == IF idx - (window \div 2) > 0 THEN idx - (window \div 2) ELSE 0
        reach      == idx + Len(highlight_target) + (window \div 2)
        end        == IF reach < Len(text) THEN reach ELSE Len(text)
        snippet    == ReSubIgnoreCase(SubSeq(text, start + 1, end), highlight_target)
        prefix     == IF start > 0 THEN <<Ellipsis>> ELSE <<>>
        suffix     == IF end < Len(text) THEN <<Ellipsis>> ELSE <<>>
    IN  IF q = <<>> THEN HeadOf(text, window)
        ELSE IF idx = -1 THEN HeadOf(text, window)
        ELSE Strip(prefix \o snippet \o suffix)

\* a call of the orchestrator's _lexical_score
LexicalScoreCall(text, query) ==
    /\ calc' = [NoCalc EXCEPT !.fn = "_lexical_score",
                              !.text = text,
                              !.query = query,
                              !.score = _lexical_score(text, query)]
    /\ UNCHANGED not_calculator

\* a call of FileSystemVectorStore._lexical_search over one document: the score the
\* document is listed with, or 0 when it is not listed
LexicalSearchCall(query, doc) ==
    /\ calc' = [NoCalc EXCEPT !.fn = "_lexical_search",
                              !.text = doc.content,
                              !.metadata = doc.metadata,
                              !.query = query,
                              !.score = LexicalSearchScore(query, doc)]
    /\ UNCHANGED not_calculator

\* a call of _make_snippet
MakeSnippetCall(text, query, window) ==
    /\ calc' = [NoCalc EXCEPT !.fn = "_make_snippet",
                              !.text = text,
                              !.query = query,
                              !.window = window,
                              !.snippet = _make_snippet(text, query, window)]
    /\ UNCHANGED not_calculator

CalcInit ==
    /\ HandlerAtRest
    /\ tasks = NoTasks
    /\ mk = NoKey
    /\ CacheAtRest
    /\ StoreAtRest

CalcNext ==
    \/ \E text \in Texts, query \in QueryTexts :
          calc.fn = "none" /\ LexicalScoreCall(text, query)
    \/ \E content \in Texts, metadata \in Filters, query \in QueryTexts :
          calc.fn = "none"
          /\ LexicalSearchCall(query, [id |-> "d1", embedding |-> <<1, 0>>,
                                       content |-> content, metadata |-> metadata])
    \/ \E text \in Texts, query \in QueryTexts, window \in Windows :
          calc.fn = "none" /\ MakeSnippetCall(text, query, window)

CalcSpec == CalcInit /\ [][CalcNext]_vars

\* C25: the lexical score lies in [0, 1] for every text and query, and an empty or
\* blank query scores 0.0 for every document, both in the orchestrator's
\* _lexical_score and in the file-backed store's _lexical_search.
C25_LexicalScoreBounded ==
    calc.fn \in {"_lexical_score", "_lexical_search"} =>
        /\ calc.score \in 0..LexMax
        /\ Strip(calc.query) = <<>> => calc.score = 0

\* the snippet without the emphasis and ellipsis markers
Unmarked(snippet) ==
    SelectSeq(snippet, LAMBDA c : c \notin {EmOpen, EmClose, Ellipsis})

\* C29: for every text and query, the snippet _make_snippet returns, with its
\* <em>, </em> and ellipsis markers removed, is a substring of the original text,
\* character for character (the original casing of the text is preserved).
C29_SnippetPreservesText ==
    calc.fn = "_make_snippet" => Contains(calc.text, Unmarked(calc.snippet))

\* C26: after any sequence of add_documents and delete_documents, every document
\* stored in a collection has an embedding whose length is the configured
\* embedding_dimension (add_documents rejects any other).
C26_EmbeddingDimensionKept ==
    \A c \in DOMAIN store_colls :
        \A i \in DOMAIN store_colls[c] :
            Len(store_colls[c][i].embedding) = EmbeddingDimension

\* a get or exists call of the in-process cache has returned
InMemoryAccessReturned(ret) ==
    cache_type = "in_memory" /\ ret.op \in {"get", "exists"} /\ ~ret.error

\* C30: immediately after a get or exists call of the in-process cache returns, the
\* backing map holds no entry whose expiry is earlier than the current time, whatever
\* its key, and the call has removed no entry that had not expired.
C30_SweepOnAccess ==
    /\ [](InMemoryAccessReturned(cache_ret) =>
              \A k \in DOMAIN cache_store : ~(cache_store[k].expiry < clock))
    /\ [][InMemoryAccessReturned(cache_ret') =>
              \A k \in DOMAIN cache_store :
                  ~(cache_store[k].expiry < clock) =>
                      (k \in DOMAIN cache_store' /\ cache_store'[k] = cache_store[k])]_vars

\* a get has swept the expired entry of another key and kept an entry
C30_Witness ==
    /\ InMemoryAccessReturned(cache_ret)
    /\ \E k \in cache_ret.removed : k # cache_ret.key
    /\ DOMAIN cache_store # {}

(***************************************************************************)
(* The jobs that write law details into the primary store: the scheduler's *)
(* LawScheduler._collect_laws, the script scripts/collect_laws.py, and a   *)
(* handler's write-back of the detail it fetched from the source.  Each    *)
(* runs its statements in the transaction of its own session.  PostgreSQL  *)
(* aborts the transaction of a statement that fails: every later statement *)
(* of it raises, and ending it applies none of its writes.                 *)
(***************************************************************************)
\* the top_queries the scheduler runs
MaxQueries == 2

\* the laws a search or a command line names: up to two
LawBatches ==
    {<<>>} \cup {<<a>> : a \in LawIds}
           \cup {<<a, b>> : a \in LawIds, b \in LawIds}

\* the articles an earlier collection stored for a law, since changed at the source
StaleArticles(id) == << [article_no |-> <<"9">>, content |-> <<"b">>] >>

\* the LawArticle rows the primary store may hold for the Law rows laws: what the
\* source has now, what it had earlier, or none
CollectedArticles(laws) ==
    {arts \in [LawIds -> {RemoteArticles(id) : id \in LawIds}
                            \cup {StaleArticles(id) : id \in LawIds} \cup {<<>>}] :
        \A id \in LawIds :
           /\ arts[id] \in {<<>>, RemoteArticles(id), StaleArticles(id)}
           /\ arts[id] # <<>> => id \in laws}

\* faulty variant: the engine commits every statement as it executes
Uncommitted_Autocommit(committed, session) == session

\* the committed rows after a session has executed statements and not committed:
\* the sessions of AsyncSessionLocal and Session(engine) run them in a transaction
Uncommitted(committed, session) == committed

\* a session is opened: it sees the committed rows
OpenSession(kind) ==
    [NoJob EXCEPT !.kind = kind, !.sess_laws = db_laws, !.sess_articles = db_articles,
                  !.emptied = job.emptied]

\* _cache_law_detail_to_db(db, d), or _upsert_law and _replace_articles, in the
\* session of j: the statement number fail_at raises (0: none)
JobWrites(j, d, fail_at) ==
    LET stmts == DetailStatements(d)
        n     == IF fail_at = 0 THEN Len(stmts) ELSE fail_at - 1
    IN  [j EXCEPT !.sess_laws = LawsAfter(@, d, n),
                  !.sess_articles = ArticlesAfter(@, d, n),
                  !.aborted = fail_at # 0,
                  !.upserts = IF fail_at = 0 THEN @ \cup {d.law_id} ELSE @,
                  !.written = IF fail_at = 0 /\ d.has_articles
                              THEN @ \cup {d.law_id} ELSE @,
                  !.undone = IF fail_at # 0 /\ stmts[fail_at] = "insert"
                             THEN @ \cup {d.law_id} ELSE @]

\* the transaction of j is committed: its writes become the committed rows
Committed(j) ==
    [j EXCEPT !.upserts = {}, !.written = {}, !.undone = {},
              !.last = "committed", !.upserted = j.upserts, !.applied = j.written,
              !.emptied = @ \cup {x \in j.written : db_articles[x] # <<>>
                                                       /\ j.sess_articles[x] = <<>>},
              !.lost = {}, !.before = db_articles]

\* the transaction of j ends without a commit: the session sees the committed rows
Discarded(j) ==
    [j EXCEPT !.sess_laws = db_laws, !.sess_articles = db_articles,
              !.aborted = FALSE, !.upserts = {}, !.written = {}, !.undone = {},
              !.last = "discarded", !.upserted = {}, !.applied = {}, !.lost = j.undone,
              !.before = db_articles]

\* the session is closed and the job is over: what it did not commit is discarded
Closed(j) ==
    [NoJob EXCEPT !.last = j.last, !.upserted = j.upserted, !.applied = j.applied,
                  !.emptied = j.emptied, !.lost = j.lost, !.before = j.before]

\* "continue": the scheduler goes on to the next of its top_queries
NextQuery(j) == [j EXCEPT !.queries_left = @ - 1, !.laws = <<>>, !.pc = "search"]

\* the law at the head of the list is done: the next one, or the commit
NextLaw(j) ==
    [j EXCEPT !.laws = Tail(@), !.pc = IF Len(j.laws) > 1 THEN "fetch" ELSE "commit"]

\* _collect_laws starts: "async for db in get_db_session()"
CollectStart ==
    /\ job.pc = "idle"
    /\ job' = [OpenSession("scheduler") EXCEPT !.pc = "search",
                                               !.queries_left = MaxQueries]
    /\ UNCHANGED <<db_laws, db_articles, not_collector>>

\* "laws = await search_law(...)": the laws found, or an exception, on which the
\* scheduler logs and continues
CollectSearch(laws, ok) ==
    /\ job.kind = "scheduler" /\ job.pc = "search" /\ job.queries_left > 0
    /\ job' = IF ~ok THEN NextQuery(job)
              ELSE [job EXCEPT !.laws = laws,
                               !.pc = IF laws = <<>> THEN "commit" ELSE "fetch"]
    /\ UNCHANGED <<db_laws, db_articles, not_collector>>

\* "detail = await fetch_law_detail(...); if detail: await
\* _cache_law_detail_to_db(db, detail)": an exception ends the query's turn
CollectLaw(ok, fail_at) ==
    /\ job.kind = "scheduler" /\ job.pc = "fetch"
    /\ LET d == fetch_law_detail(Head(job.laws), TRUE, FALSE, ok)
       IN  IF ~IsDetail(d)
           THEN /\ fail_at = 0
                /\ job' = NextLaw(job)
                /\ UNCHANGED <<db_laws, db_articles>>
           ELSE IF job.aborted
           THEN /\ fail_at = 1
                /\ job' = NextQuery(job)
                /\ UNCHANGED <<db_laws, db_articles>>
           ELSE /\ fail_at \in 0..Len(DetailStatements(d))
                /\ LET j == JobWrites(job, d, fail_at)
                   IN  /\ job' = IF fail_at = 0 THEN NextLaw(j) ELSE NextQuery(j)
                       /\ db_laws' = Uncommitted(db_laws, j.sess_laws)
                       /\ db_articles' = Uncommitted(db_articles, j.sess_articles)
    /\ UNCHANGED not_collector

\* "await db.commit()" at the end of a query's turn: the COMMIT of an aborted
\* transaction applies nothing; a commit that raises leaves the transaction failed
CollectCommit(ok) ==
    /\ job.kind = "scheduler" /\ job.pc = "commit"
    /\ IF job.aborted
       THEN /\ job' = NextQuery(IF ok THEN Discarded(job) ELSE job)
            /\ UNCHANGED <<db_laws, db_articles>>
       ELSE IF ok
       THEN /\ job' = NextQuery(Committed(job))
            /\ db_laws' = job.sess_laws
            /\ db_articles' = job.sess_articles
       ELSE /\ job' = NextQuery([job EXCEPT !.aborted = TRUE])
            /\ UNCHANGED <<db_laws, db_articles>>
    /\ UNCHANGED not_collector

\* the top_queries are done: the session of get_db_session is closed
CollectEnd ==
    /\ job.kind = "scheduler" /\ job.pc = "search" /\ job.queries_left = 0
    /\ job' = Closed(IF job.aborted THEN Discarded(job) ELSE job)
    /\ UNCHANGED <<db_laws, db_articles, not_collector>>

\* scripts/collect_laws.py past its dry run: "with Session(engine) as session"
ScriptStart(law_ids, no_articles) ==
    /\ job.pc = "idle"
    /\ law_ids # <<>>
    /\ job' = [OpenSession("script") EXCEPT !.pc = "fetch", !.laws = law_ids,
                                            !.no_articles = no_articles]
    /\ UNCHANGED <<db_laws, db_articles, not_collector>>

\* one law of the script: fetch_law_detail, _upsert_law, _replace_articles and
\* session.commit(); an exception leaves main() and the session is closed
ScriptLaw(ok, fail_at, commit_ok) ==
    /\ job.kind = "script" /\ job.pc = "fetch"
    /\ LET d    == fetch_law_detail(Head(job.laws), ~job.no_articles, FALSE, ok)
           more == Len(job.laws) > 1
       IN  IF ~IsDetail(d)
           THEN /\ fail_at = 0 /\ commit_ok
                /\ job' = IF more THEN [job EXCEPT !.laws = Tail(@)] ELSE Closed(job)
                /\ UNCHANGED <<db_laws, db_articles>>
           ELSE /\ fail_at \in 0..Len(DetailStatements(d))
                /\ fail_at # 0 => commit_ok
                /\ LET j == JobWrites(job, d, fail_at)
                   IN  IF fail_at = 0 /\ commit_ok
                       THEN /\ job' = IF more THEN [Committed(j) EXCEPT !.laws = Tail(@)]
                                      ELSE Closed(Committed(j))
                            /\ db_laws' = j.sess_laws
                            /\ db_articles' = j.sess_articles
                       ELSE /\ job' = Closed(Discarded(j))
                            /\ db_laws' = Uncommitted(db_laws, j.sess_laws)
                            /\ db_articles' = Uncommitted(db_articles, j.sess_articles)
    /\ UNCHANGED not_collector

\* a handler writes back the detail it fetched from the source: "try: await
\* _cache_law_detail_to_db(db, detail); await db.commit()", and on an exception
\* "await db.rollback()", whose own exception is passed over; the request's
\* session is closed when the request ends
RequestWriteBack(law_id, include_articles, fail_at, commit_ok) ==
    /\ job.pc = "idle"
    /\ LET d == fetch_law_detail(law_id, include_articles, FALSE, TRUE)
           j == JobWrites(OpenSession("request"), d, fail_at)
       IN  /\ fail_at \in 0..Len(DetailStatements(d))
           /\ fail_at # 0 => commit_ok
           /\ IF fail_at = 0 /\ commit_ok
              THEN /\ job' = Closed(Committed(j))
                   /\ db_laws' = j.sess_laws
                   /\ db_articles' = j.sess_articles
              ELSE /\ job' = Closed(Discarded(j))
                   /\ db_laws' = Uncommitted(db_laws, j.sess_laws)
                   /\ db_articles' = Uncommitted(db_articles, j.sess_articles)
    /\ UNCHANGED not_collector

\* the primary store as earlier collections left it; no request is being handled
CollectInit ==
    /\ law_api_key = TRUE
    /\ db_laws \in SUBSET LawIds
    /\ db_articles \in CollectedArticles(db_laws)
    /\ sess_laws = db_laws
    /\ sess_articles = db_articles
    /\ pc = "idle"
    /\ flow = "none"
    /\ req = NoRequest
    /\ results = <<>>
    /\ total_count = 0
    /\ detail = NoDetail
    /\ source = "none"
    /\ db_error = FALSE
    /\ need_remote_fallback = FALSE
    /\ law_name_known = FALSE
    /\ raw = <<>>
    /\ outcome = "none"
    /\ hist = NoHist
    /\ tasks = NoTasks
    /\ mk = NoKey
    /\ CacheAtRest
    /\ store_type = "in_memory"
    /\ store_initialized = FALSE
    /\ store_colls = [c \in {} |-> <<>>]
    /\ store_ret = NoStoreRet
    /\ calc = NoCalc
    /\ job = NoJob
    /\ law_rows = NoRows
    /\ overlap = NoOverlap

CollectNext ==
    \/ CollectStart
    \/ \E laws \in LawBatches, ok \in BOOLEAN : CollectSearch(laws, ok)
    \/ \E ok \in BOOLEAN, fail_at \in 0..3 : CollectLaw(ok, fail_at)
    \/ \E ok \in BOOLEAN : CollectCommit(ok)
    \/ CollectEnd
    \/ \E law_ids \in LawBatches, no_articles \in BOOLEAN : ScriptStart(law_ids, no_articles)
    \/ \E ok \in BOOLEAN, fail_at \in 0..3, commit_ok \in BOOLEAN :
          ScriptLaw(ok, fail_at, commit_ok)
    \/ \E law_id \in LawIds, include_articles \in BOOLEAN, fail_at \in 0..3,
          commit_ok \in BOOLEAN :
          RequestWriteBack(law_id, include_articles, fail_at, commit_ok)

CollectSpec == CollectInit /\ [][CollectNext]_vars

\* C27: after a successful write-back carrying the article list L of law X, the
\* committed article rows of X are exactly the rows of L (what was stored for X
\* before is gone), and the article rows of every other law are what they were.
C27_ArticlesFullyReplaced ==
    job.last = "committed" =>
        /\ \A x \in job.applied : db_articles[x] = RemoteArticles(x)
        /\ \A o \in LawIds \ job.applied : db_articles[o] = job.before[o]

\* a commit replaced the stale articles of one law by the source's, and another
\* law keeps the articles it had
C27_Witness ==
    /\ job.last = "committed"
    /\ \E x \in job.applied :
          /\ job.before[x] = StaleArticles(x)
          /\ db_articles[x] = RemoteArticles(x) /\ RemoteArticles(x) # <<>>
          /\ \E o \in LawIds \ job.applied : db_articles[o] # <<>>

\* C28: a write-back that fails or is abandoned before its commit leaves the
\* committed rows of the primary store as they were: they change only in the commit
\* of a transaction none of whose statements failed, and then only by whole
\* write-backs, so no law is left with its articles deleted and not re-inserted.
C28_FailedWriteBackLeavesStore ==
    [][(db_laws' # db_laws \/ db_articles' # db_articles) =>
          /\ job'.last = "committed"
          /\ job'.lost = {}
          /\ \A x \in LawIds :
                db_articles'[x] # db_articles[x] =>
                    (x \in job'.applied /\ db_articles'[x] = RemoteArticles(x))]_vars

\* a write-back deleted the articles of a law, failed before inserting the new
\* ones, and was discarded: the law's committed articles are still there
C28_Witness ==
    /\ job.last = "discarded"
    /\ \E x \in job.lost : db_articles[x] # <<>> /\ db_articles[x] = job.before[x]

\* C31: on every backend delete_documents returns the number of documents it
\* deleted (an id not in the collection counts 0, an id listed twice counts once),
\* none of the listed ids remains in the collection, and every other document of it
\* is unchanged.
C31_DeleteCountsDeleted ==
    [][(store_ret'.op = "delete_documents" /\ store_ret'.error = "none") =>
          LET name   == store_ret'.collection
              before == DocsOf(store_colls, name)
              listed == Range(store_ret'.ids)
          IN  /\ store_ret'.count =
                     Cardinality({i \in DOMAIN before : before[i].id \in listed})
              /\ DocsOf(store_colls', name) = Without(before, listed)]_vars

\* the aggregator followed has returned the merge of a compound query with no more
\* sub-queries than top_k
WithinBudget ==
    /\ tasks.phase = "returned"
    /\ tasks.query_list # <<>>
    /\ Len(tasks.query_list) <= tasks.top_k

\* what sub-query q matches: rows of the primary store, or laws of the remote source
MatchesOf(agg, q) ==
    IF agg = "db" THEN {id \in db_laws : LikeMatches(id, q)}
    ELSE Range(RemoteSearch(q, Cardinality(LawIds)))

\* C32: for a compound query with at most top_k sub-queries, every sub-query that
\* matches at least one document (and whose search did not fail) has at least one
\* document matching it in the aggregated result: the cut to top_k never removes
\* the whole contribution of a sub-query.
C32_EverySubQueryRepresented ==
    WithinBudget =>
        \A i \in DOMAIN tasks.query_list :
            (tasks.status[i] = "done" /\ MatchesOf(tasks.agg, tasks.query_list[i]) # {}) =>
                \E k \in DOMAIN tasks.out :
                    tasks.out[k].law_id \in MatchesOf(tasks.agg, tasks.query_list[i])

\* two sub-queries, each matching laws the other does not, both represented
C32_Witness ==
    /\ WithinBudget
    /\ Len(tasks.query_list) = 2
    /\ \A i \in 1..2 : tasks.status[i] = "done"
    /\ MatchesOf(tasks.agg, tasks.query_list[1]) \ MatchesOf(tasks.agg, tasks.query_list[2]) # {}
    /\ MatchesOf(tasks.agg, tasks.query_list[2]) \ MatchesOf(tasks.agg, tasks.query_list[1]) # {}
    /\ Len(tasks.out) = 2

InGetLawDetail == flow = "get_law_detail"

\* C33: get_law_detail calls the secondary source only when the Law row is absent
\* from the primary store or the primary lookup raised; a law stored with no
\* articles is answered from the primary store with an empty article list, with no
\* secondary call and no write-back (so a law stored by a whole-document-search
\* write-back is served without articles until a detail write-back stores them).
C33_DetailFromPrimaryWithoutArticles ==
    /\ (InGetLawDetail /\ hist.sec_calls > 0) =>
           (~hist.law_in_db \/ hist.primary = "error")
    /\ (InGetLawDetail /\ hist.law_in_db /\ hist.article_total = 0
            /\ hist.primary # "error") =>
           /\ hist.sec_calls = 0
           /\ hist.wb_calls = 0 /\ hist.writes = 0 /\ hist.commits = 0
           /\ IsDetail(detail) /\ detail.articles = <<>> /\ source = "postgres"
           /\ Done => outcome = "RESPOND"

\* a law the source has articles of, stored without them, is answered from the
\* primary store although the secondary source is configured
C33_Witness ==
    /\ InGetLawDetail /\ Done /\ outcome = "RESPOND"
    /\ law_api_key /\ req.include_articles
    /\ hist.law_in_db /\ hist.article_total = 0 /\ hist.primary = "rows"
    /\ RemoteArticles(req.law_id) # <<>>
    /\ detail.articles = <<>>

\* C34: a detail write-back whose record carries no article list upserts the Law
\* row only and leaves the articles stored for that law as they were; one whose
\* article list is empty deletes all the stored articles of that law.
C34_NoListKeepsArticles ==
    job.last = "committed" =>
        /\ \A x \in job.upserted \ job.applied :
               x \in db_laws /\ db_articles[x] = job.before[x]
        /\ \A x \in job.applied : RemoteArticles(x) = <<>> => db_articles[x] = <<>>

\* a write-back without a list has kept the stored articles of its law, and a
\* write-back with an empty list has deleted those of another
C34_Witness ==
    /\ job.last = "committed"
    /\ \E x \in job.upserted \ job.applied :
          job.before[x] # <<>> /\ db_articles[x] = job.before[x]
    /\ \E y \in job.emptied : db_articles[y] = <<>>

(***************************************************************************)
(* The Law rows field by field: what the two write-backs do to the columns *)
(* of a row that is already stored.  law_serial stands for the column only *)
(* the detail write-back sets, law_type for the column the search          *)
(* write-back always sets to None, department for the columns it sets from *)
(* `item.get(...) or None`.                                                *)
(***************************************************************************)
\* the longest list of summary records written back
MaxRaw == 2

\* the columns followed
Columns == {"law_serial", "law_type", "department"}

\* a column's values: NULL or a value
ColumnValues == {Null, "v"}

\* the summary records of the collector: the id may be empty, the department empty
SummaryItems == [law_id : LawIds \cup {""}, department : {"", "v"}]

\* the lists of summary records
RawLists == UNION {[1..n -> SummaryItems] : n \in 0..MaxRaw}

\* the fetched details, by the columns followed
DetailRecords == [law_id : LawIds, law_serial : ColumnValues, law_type : ColumnValues,
                  department : ColumnValues]

\* `x or None`
OrNone(x) == IF x = "" THEN Null ELSE x

\* one statement of _cache_search_results_to_db: INSERT ... ON CONFLICT (law_id) DO
\* UPDATE SET every column of insert_values but law_id
SearchUpsert(table, item) ==
    IF item.law_id = "" THEN table
    ELSE [table EXCEPT ![item.law_id] =
              [stored |-> TRUE,
               law_serial |-> @.law_serial,
               law_type |-> Null,
               department |-> OrNone(item.department)]]

RECURSIVE _cache_search_results_to_db(_, _)
_cache_search_results_to_db(table, items) ==
    IF items = <<>> THEN table
    ELSE _cache_search_results_to_db(SearchUpsert(table, Head(items)), Tail(items))

\* the Law statement of _cache_law_detail_to_db
DetailUpsert(table, d) ==
    [table EXCEPT ![d.law_id] =
         [stored |-> TRUE, law_serial |-> d.law_serial, law_type |-> d.law_type,
          department |-> d.department]]

\* law_search writes the collector's rows back and commits
SearchRowsWriteBack(items) ==
    /\ law_rows' = [table |-> _cache_search_results_to_db(law_rows.table, items),
                    op |-> "search", raw |-> items]
    /\ UNCHANGED not_rows

\* get_law_detail or search_articles writes a fetched detail back and commits
DetailRowWriteBack(d) ==
    /\ law_rows' = [table |-> DetailUpsert(law_rows.table, d), op |-> "detail", raw |-> <<>>]
    /\ UNCHANGED not_rows

RowInit ==
    /\ HandlerAtRest
    /\ tasks = NoTasks
    /\ mk = NoKey
    /\ CacheAtRest
    /\ store_type = "in_memory"
    /\ store_initialized = FALSE
    /\ store_colls = [c \in {} |-> <<>>]
    /\ store_ret = NoStoreRet
    /\ calc = NoCalc
    /\ job = NoJob
    /\ overlap = NoOverlap
    /\ law_rows \in {[table |-> t, op |-> "none", raw |-> <<>>] :
                        t \in [LawIds -> {NoRow} \cup
                                 [stored : {TRUE}, law_serial : ColumnValues,
                                  law_type : ColumnValues, department : ColumnValues]]}

RowNext ==
    \/ \E items \in RawLists : SearchRowsWriteBack(items)
    \/ \E d \in DetailRecords : DetailRowWriteBack(d)

RowSpec == RowInit /\ [][RowNext]_vars

\* C35: a write-back from whole-document search applied to a law that is already
\* stored never replaces a stored non-null column of its Law row with null, and
\* summary records with an empty law id are skipped without any write.
C35_SearchWriteBackKeepsFields ==
    [][law_rows'.op = "search" =>
          /\ \A id \in LawIds, c \in Columns :
                 (law_rows.table[id].stored /\ law_rows.table[id][c] # Null)
                     => law_rows'.table[id][c] # Null
          /\ (\A i \in DOMAIN law_rows'.raw : law_rows'.raw[i].law_id = "")
                 => law_rows'.table = law_rows.table]_vars

(***************************************************************************)
(* The local stores under additions and deletions of documents whose ids   *)
(* are of any form.                                                        *)
(***************************************************************************)
DocIdInit ==
    /\ HandlerAtRest
    /\ tasks = NoTasks
    /\ mk = NoKey
    /\ CacheAtRest
    /\ store_type \in {"in_memory", "file_system"}
    /\ store_initialized = TRUE
    /\ store_colls = [c \in {} |-> <<>>]
    /\ store_ret = NoStoreRet
    /\ calc = NoCalc
    /\ job = NoJob
    /\ law_rows = NoRows
    /\ overlap = NoOverlap

DocIdNext ==
    \/ \E documents \in AnyIdDocLists, collection \in CollectionArgs :
          AddDocuments(documents, collection)
    \/ \E ids \in AnyIdLists, collection \in CollectionArgs : DeleteDocuments(ids, collection)
    \/ \E query_embedding \in QueryEmbeddings, top_k \in 0..MaxTopK,
          collection \in CollectionArgs :
          Search(query_embedding, top_k, collection, "")
    \/ \E collection \in CollectionArgs : CountDocuments(collection, "")

DocIdSpec == DocIdInit /\ [][DocIdNext]_vars

\* the ids of the documents a collection holds
StoredIds(colls, name) == {DocsOf(colls, name)[i].id : i \in DOMAIN DocsOf(colls, name)}

\* C36: on the in-process and file-backed stores, count_documents without a filter
\* is the number of distinct ids added and not deleted since, and a search whose
\* top_k is at least that number returns each of those documents, whatever the ids.
C36_CountIsIdsAddedNotDeleted ==
    [][(store_type \in {"in_memory", "file_system"} /\ store_ret'.error = "none") =>
          LET held == StoredIds(store_colls, store_ret'.collection)
          IN  /\ (store_ret'.op = "count_documents" /\ store_ret'.asked.filters = "")
                     => store_ret'.count = Cardinality(held)
              /\ (/\ store_ret'.op = "search"
                  /\ store_ret'.asked.filters = ""
                  /\ store_ret'.asked.top_k >= Cardinality(held))
                     => held = {store_ret'.results[i].id : i \in DOMAIN store_ret'.results}]_vars

\* the operations of a store that read or delete documents
ReadAndDeleteOps == {"search", "hybrid_search", "count_documents", "delete_documents"}

\* C37: on the in-process and file-backed stores, search, hybrid_search,
\* count_documents and delete_documents on a collection that does not exist (never
\* written, or removed by delete_collection) do not create it: collection_exists
\* stays false.
C37_ReadsCreateNoCollection ==
    [][(/\ store_type \in {"in_memory", "file_system"}
        /\ store_ret'.op \in ReadAndDeleteOps
        /\ store_ret'.collection \notin DOMAIN store_colls)
           => store_ret'.collection \notin DOMAIN store_colls']_vars

\* C38: when initialize() of the remote store raises on a store that was not
\* initialized, the store stays uninitialized: the data operation that follows
\* fails with the not-initialized error.  (collection_exists, which answers False
\* without a client, is left to C20.)
C38_FailedInitializeLeavesUninitialized ==
    [][(/\ store_type = "qdrant"
        /\ store_ret.op = "initialize"
        /\ store_ret.uninit
        /\ store_ret.error # "none"
        /\ store_ret'.op \in StoreDataOps \ {"collection_exists"})
           => store_ret'.error = "not_initialized"]_vars

(***************************************************************************)
(* clear_prefix over keys made with any argument list: none, one, and one  *)
(* long enough for the last part of the key to be hashed.                  *)
(***************************************************************************)
\* the namespaces and argument lists, of any length, the keys are made of
PrefixKeyTable ==
    { [prefix |-> <<"a">>, args |-> <<>>],
      [prefix |-> <<"a">>, args |-> << <<"1">> >>],
      [prefix |-> <<"a">>, args |-> << Repeat("x", KeyLimit + 1) >>],
      [prefix |-> <<"b">>, args |-> << <<"1">> >>],
      [prefix |-> Repeat("y", KeyLimit + 1), args |-> <<>>] }

PrefixNext ==
    \/ CacheInitialize
    \/ \E t \in PrefixKeyTable, value \in CacheValues :
          CacheSet(_make_key(CachePrefix, t.prefix, t.args), value, -1)
    \/ \E t \in PrefixKeyTable : CacheClearPrefix(t.prefix)

PrefixSpec == CacheInit /\ [][PrefixNext]_vars

\* C39: clear_prefix(p) removes every stored entry whose key _make_key made under
\* p, whatever the argument list: none, or one whose key ends in a hash.
C39_ClearPrefixComplete ==
    (cache_ret.op = "clear_prefix" /\ ~cache_ret.error) =>
        \A t \in PrefixKeyTable :
            t.prefix = cache_ret.key =>
                _make_key(CachePrefix, t.prefix, t.args) \notin DOMAIN cache_store

(***************************************************************************)
(* Two requests that miss the primary store for one law and write the      *)
(* fetched detail back, each in the transaction of its own session, their  *)
(* statements interleaved.  The sessions are PostgreSQL transactions at     *)
(* READ COMMITTED (the engine sets no isolation level): a statement waits   *)
(* for the transaction that holds the row, or the unique key, it needs.     *)
(***************************************************************************)
\* the law both requests ask for
RaceLaw == "1"

\* article_no of the rows
ArticleNos(rows) == {rows[i].article_no : i \in DOMAIN rows}

\* the LawArticle rows a session has inserted
InsertedRows(ses) == IF ses.n >= 3 THEN ses.d.articles ELSE <<>>

\* the session's transaction is open: it holds its locks
InTransaction(ses) == ses.pc \in {"writing", "failed"} /\ ses.n >= 1

\* faulty variant: no statement waits for the other transaction
Blocked_Never(stmt, ses, other, committed) == FALSE

\* the statement has to wait for the other session's transaction to end: the upsert
\* for the Law row the other has upserted, the DELETE for the rows the other has
\* deleted, the INSERT for the unique keys (law_id, article_no) the other has inserted
Blocked(stmt, ses, other, committed) ==
    /\ InTransaction(other)
    /\ \/ stmt = "upsert"
       \/ stmt = "delete" /\ other.n >= 2 /\ committed # <<>>
       \/ stmt = "insert"
          /\ ArticleNos(ses.d.articles) \cap ArticleNos(InsertedRows(other)) # {}

\* uq_law_articles_law_id_article_no: a row to insert has the key of a committed row
\* the session has not deleted, or of another row of the list
UniqueViolation(ses) ==
    \/ ArticleNos(ses.d.articles) \cap ArticleNos(ses.since) # {}
    \/ Cardinality(ArticleNos(ses.d.articles)) # Len(ses.d.articles)

\* a request misses the law in the primary store (no Law row, or the lookup raised)
\* and fetches its detail from the secondary source
RaceMiss(r, include_articles, raised) ==
    /\ overlap.s[r].pc = "idle"
    /\ ~raised => RaceLaw \notin db_laws
    /\ overlap' = [overlap EXCEPT
                      !.s[r] = [@ EXCEPT
                                   !.pc = "writing",
                                   !.d = fetch_law_detail(RaceLaw, include_articles,
                                                          FALSE, TRUE),
                                   !.overlapped = overlap.s[3 - r].pc \in {"writing", "failed"},
                                   !.source = "law.go.kr"]]
    /\ UNCHANGED <<db_laws, db_articles, not_race>>

\* the next statement of _cache_law_detail_to_db in the request's session; it raises
\* when the server refuses it (ok is false) or a unique key is violated
RaceStatement(r, ok) ==
    LET ses   == overlap.s[r]
        stmts == DetailStatements(ses.d)
    IN  /\ ses.pc = "writing"
        /\ ses.n < Len(stmts)
        /\ ~Blocked(stmts[ses.n + 1], ses, overlap.s[3 - r], db_articles[RaceLaw])
        /\ overlap' = [overlap EXCEPT
                          !.s[r] = IF ok /\ ~(stmts[ses.n + 1] = "insert" /\ UniqueViolation(ses))
                                   THEN [@ EXCEPT !.n = @ + 1]
                                   ELSE [@ EXCEPT !.pc = "failed"]]
        /\ UNCHANGED <<db_laws, db_articles, not_race>>

\* db.commit(): the statements are applied; the rows inserted are rows the other
\* session's DELETE, if it has run, did not see
RaceCommit(r, ok) ==
    LET ses      == overlap.s[r]
        other    == overlap.s[3 - r]
        has_list == ses.d.has_articles
    IN  /\ ses.pc = "writing"
        /\ ses.n = Len(DetailStatements(ses.d))
        /\ IF ok
           THEN /\ db_laws' = LawsAfter(db_laws, ses.d, ses.n)
                /\ db_articles' = IF has_list
                                  THEN [db_articles EXCEPT
                                           ![RaceLaw] = ses.since \o InsertedRows(ses)]
                                  ELSE db_articles
                /\ overlap' = [overlap EXCEPT
                                  !.s[r] = [@ EXCEPT !.pc = "done", !.ended = "committed"],
                                  !.s[3 - r] = IF other.pc \in {"writing", "failed"}
                                                  /\ other.n >= 2 /\ has_list
                                               THEN [@ EXCEPT !.since = @ \o InsertedRows(ses)]
                                               ELSE @]
           ELSE /\ overlap' = [overlap EXCEPT !.s[r] = [@ EXCEPT !.pc = "failed"]]
                /\ UNCHANGED <<db_laws, db_articles>>
        /\ UNCHANGED not_race

\* "except Exception: db.rollback()", whose own failure is passed over: the
\* transaction ends with nothing applied
RaceRollback(r) ==
    /\ overlap.s[r].pc = "failed"
    /\ overlap' = [overlap EXCEPT !.s[r] = [@ EXCEPT !.pc = "done", !.ended = "rolled_back"]]
    /\ UNCHANGED <<db_laws, db_articles, not_race>>

RaceInit ==
    /\ law_api_key = TRUE
    /\ db_laws \in SUBSET LawIds
    /\ db_articles \in CollectedArticles(db_laws)
    /\ sess_laws = db_laws
    /\ sess_articles = db_articles
    /\ pc = "idle"
    /\ flow = "none"
    /\ req = NoRequest
    /\ results = <<>>
    /\ total_count = 0
    /\ detail = NoDetail
    /\ source = "none"
    /\ db_error = FALSE
    /\ need_remote_fallback = FALSE
    /\ law_name_known = FALSE
    /\ raw = <<>>
    /\ outcome = "none"
    /\ hist = NoHist
    /\ tasks = NoTasks
    /\ mk = NoKey
    /\ CacheAtRest
    /\ store_type = "in_memory"
    /\ store_initialized = FALSE
    /\ store_colls = [c \in {} |-> <<>>]
    /\ store_ret = NoStoreRet
    /\ calc = NoCalc
    /\ job = NoJob
    /\ law_rows = NoRows
    /\ overlap = [NoOverlap EXCEPT !.before = db_articles]

RaceNext ==
    \/ \E r \in 1..2, include_articles \in BOOLEAN, raised \in BOOLEAN :
          RaceMiss(r, include_articles, raised)
    \/ \E r \in 1..2, ok \in BOOLEAN : RaceStatement(r, ok)
    \/ \E r \in 1..2, ok \in BOOLEAN : RaceCommit(r, ok)
    \/ \E r \in 1..2 : RaceRollback(r)

RaceSpec == RaceInit /\ [][RaceNext]_vars

\* C40: when two overlapping requests have missed the primary store for one law
\* and written the same fetched detail back, each has its secondary-derived
\* response, and the primary store holds at most one article row per (law_id,
\* article_no) and, for that law, the complete fetched article set or the set
\* committed before the requests.
C40_OverlappingWriteBacks ==
    (/\ \A r \in 1..2 : overlap.s[r].pc = "done"
     /\ overlap.s[1].d = overlap.s[2].d) =>
        /\ \A r \in 1..2 : overlap.s[r].source = "law.go.kr"
        /\ Cardinality(ArticleNos(db_articles[RaceLaw])) = Len(db_articles[RaceLaw])
        /\ db_articles[RaceLaw] \in {overlap.s[1].d.articles, overlap.before[RaceLaw]}

\* both requests were in flight together, both committed the fetched article list,
\* and the store holds it in place of the rows it held before
C40_Witness ==
    /\ \A r \in 1..2 : /\ overlap.s[r].pc = "done"
                       /\ overlap.s[r].ended = "committed"
                       /\ overlap.s[r].d.has_articles
    /\ \E r \in 1..2 : overlap.s[r].overlapped
    /\ overlap.before[RaceLaw] # RemoteArticles(RaceLaw)
    /\ db_articles[RaceLaw] = RemoteArticles(RaceLaw)

=============================================================================
